---- MODULE Spec2Model ----
(***************************************************************************)
(* Habit tracker: the in-memory HabitRepository (repositories/             *)
(* habit_repository.py) and the HabitService built on it (services/        *)
(* habit_service.py).                                                      *)
(*                                                                         *)
(* A calendar date is its day number counted from 2024-01-15 (day 0), so   *)
(* (a - b).days is a - b.  An Optional value is a sequence of length at    *)
(* most one: None is << >> and a present value x is << x >>.  A raised     *)
(* exception is the outcome's kind, its attributes the outcome's value.    *)
(***************************************************************************)
EXTENDS Integers, Sequences, FiniteSets, TLC

\* ------------------------------------------------------------------ bounds
\* Habits created where the calls carry dates and requests (Spec, SpecHistory, SpecApi).
MaxHabits == 1
\* Habits created where only create_habit and delete_habit are called (SpecIds).
MaxCreates == 3
\* Last day the clock reaches; the clock starts the day before.
MaxDay == 2

\* ------------------------------------------------------------------ values
None == << >>
Some(x) == << x >>

Dates == 0 .. MaxDay
HabitIds == 0 .. MaxHabits
Names == {"Exercise", "Read"}
Descriptions == {"daily"}
Statuses == {"pending", "completed"}

Optional(S) == {None} \cup {Some(x) : x \in S}

CreateHabitRequest == [name : Names, description : Optional(Descriptions)]

UpdateHabitRequest ==
  [name : Optional(Names), description : Optional(Descriptions),
   status : Optional(Statuses)]

\* Habit(**data): the record with the model's six fields.
Habit(data) ==
  [id |-> data.id, name |-> data.name, description |-> data.description,
   status |-> data.status, streak_days |-> data.streak_days,
   last_completed_at |-> data.last_completed_at]

\* date.isoformat(), for the days of January 2024 from the 15th on.
Digit == <<"0", "1", "2", "3", "4", "5", "6", "7", "8", "9">>
isoformat(d) ==
  "2024-01-" \o Digit[((15 + d) \div 10) + 1] \o Digit[((15 + d) % 10) + 1]

\* ------------------------------------------------------------------- state
VARIABLES
  _habits,      \* HabitRepository._habits: entries in insertion order
  _next_id,     \* HabitRepository._next_id
  today,        \* date.today()
  call,         \* the most recent HabitService call and its outcome
  completions,  \* history: per identifier, the dates of its successful completions
  created,      \* history: the number of create_habit calls that have returned
  latest,       \* history: per identifier, the date of its latest successful completion
  threads       \* per thread, the service call it is in the middle of

vars == <<_habits, _next_id, today, call, completions, created, latest, threads>>

\* ------------------------------------------------- dict (insertion ordered)
RECURSIVE IndexOf(_, _, _)
IndexOf(d, k, i) ==
  IF i > Len(d) THEN 0
  ELSE IF d[i].key = k THEN i ELSE IndexOf(d, k, i + 1)

\* k in d
DictHas(d, k) == IndexOf(d, k, 1) # 0

\* d[k]
DictGet(d, k) == d[IndexOf(d, k, 1)].value

\* Variant: a written key always goes last.
DictSet_MoveToEnd(d, k, v) ==
  LET i == IndexOf(d, k, 1)
      rest == IF i = 0 THEN d ELSE SubSeq(d, 1, i - 1) \o SubSeq(d, i + 1, Len(d))
  IN  Append(rest, [key |-> k, value |-> v])

\* d[k] = v : an existing key keeps its position, a new key goes last
DictSet(d, k, v) ==
  IF DictHas(d, k)
  THEN [d EXCEPT ![IndexOf(d, k, 1)] = [key |-> k, value |-> v]]
  ELSE Append(d, [key |-> k, value |-> v])

\* Variant: the entries after the key go with it.
DictDel_Truncate(d, k) == SubSeq(d, 1, IndexOf(d, k, 1) - 1)

\* del d[k]
DictDel(d, k) ==
  LET i == IndexOf(d, k, 1)
  IN  SubSeq(d, 1, i - 1) \o SubSeq(d, i + 1, Len(d))

\* list(d.values())
DictValues(d) == [i \in 1 .. Len(d) |-> d[i].value]

\* {**a, **b} and a.update(b) on dicts with string keys
DictMerge(a, b) ==
  [f \in DOMAIN a \cup DOMAIN b |-> IF f \in DOMAIN b THEN b[f] ELSE a[f]]

\* -------------------------------------------------------- HabitRepository
\* Each operation maps the store (habits, next_id) to the store after it and
\* the value returned.

\* HabitRepository.__init__
RepositoryInit == [habits |-> << >>, next_id |-> 1]

\* Variant: the identifier is the number of stored habits plus one.
create_CountPlusOne(habits, next_id, habit_data) ==
  LET habit == Habit(DictMerge(habit_data, [id |-> Len(habits) + 1]))
  IN  [habits |-> DictSet(habits, Len(habits) + 1, habit),
       next_id |-> next_id + 1,
       ret |-> habit]

\* Variant: the identifier is the lowest one no stored habit has.
create_LowestFree(habits, next_id, habit_data) ==
  LET free == CHOOSE i \in 1 .. Len(habits) + 1 :
                /\ ~DictHas(habits, i)
                /\ \A j \in 1 .. i - 1 : DictHas(habits, j)
      habit == Habit(DictMerge(habit_data, [id |-> free]))
  IN  [habits |-> DictSet(habits, free, habit),
       next_id |-> next_id + 1,
       ret |-> habit]

\* HabitRepository.create
create(habits, next_id, habit_data) ==
  LET habit == Habit(DictMerge(habit_data, [id |-> next_id]))
  IN  [habits |-> DictSet(habits, next_id, habit),
       next_id |-> next_id + 1,
       ret |-> habit]

\* HabitRepository.get_by_id : Optional[Habit]
get_by_id(habits, habit_id) ==
  IF DictHas(habits, habit_id) THEN Some(DictGet(habits, habit_id)) ELSE None

\* HabitRepository.get_all
get_all(habits) == DictValues(habits)

\* Variant: an update of a missing id stores the fields given.
update_Upsert(habits, habit_id, updates) ==
  IF ~DictHas(habits, habit_id)
  THEN [habits |-> DictSet(habits, habit_id, updates), ret |-> Some(updates)]
  ELSE LET current_habit == DictGet(habits, habit_id)
           updated_habit == Habit(DictMerge(current_habit, updates))
       IN  [habits |-> DictSet(habits, habit_id, updated_habit),
            ret |-> Some(updated_habit)]

\* HabitRepository.update : Optional[Habit]
update(habits, habit_id, updates) ==
  IF ~DictHas(habits, habit_id)
  THEN [habits |-> habits, ret |-> None]
  ELSE LET current_habit == DictGet(habits, habit_id)
           updated_habit == Habit(DictMerge(current_habit, updates))
       IN  [habits |-> DictSet(habits, habit_id, updated_habit),
            ret |-> Some(updated_habit)]

\* HabitRepository.delete : bool
delete(habits, habit_id) ==
  IF DictHas(habits, habit_id)
  THEN [habits |-> DictDel(habits, habit_id), ret |-> TRUE]
  ELSE [habits |-> habits, ret |-> FALSE]

\* Variant: the identifier counter is left where it was.
clear_KeepsCounter(habits, next_id) == [habits |-> << >>, next_id |-> next_id]

\* HabitRepository.clear
clear(habits, next_id) == [habits |-> << >>, next_id |-> 1]

\* ------------------------------------------------------ service exceptions
HabitNotFoundError(habit_id) ==
  [message |-> "Habit with ID " \o ToString(habit_id)
                 \o " not found. Please verify the habit ID exists.",
   error_code |-> "HABIT_NOT_FOUND", habit_id |-> habit_id]

DuplicateCompletionError(habit_name, completion_date) ==
  [message |-> "Habit '" \o habit_name \o "' is already completed for "
                 \o completion_date
                 \o ". Each habit can only be completed once per day.",
   error_code |-> "DUPLICATE_COMPLETION", habit_name |-> habit_name,
   completion_date |-> completion_date]

InvalidHabitDataError(field, value, constraint) ==
  [message |-> "Invalid value for " \o field \o ": '" \o value \o "'. " \o constraint,
   error_code |-> "INVALID_HABIT_DATA", field |-> field, value |-> value,
   constraint |-> constraint]

\* An outcome of a service call: the store it leaves, "ok" or the exception
\* raised, and the value returned or the exception's attributes.
Return(habits, next_id, value) ==
  [habits |-> habits, next_id |-> next_id, kind |-> "ok", value |-> value]

Raise(habits, next_id, kind, error) ==
  [habits |-> habits, next_id |-> next_id, kind |-> kind, value |-> error]

\* ------------------------------------------------------------ HabitService
\* Variant: zero passes the identifier check.
InvalidId_NegativeOnly(habit_id) == habit_id < 0

\* "not isinstance(habit_id, int) or habit_id <= 0"
InvalidId(habit_id) == habit_id <= 0

\* Variant: the description of the request is not stored.
create_habit_NoDescription(habits, next_id, request) ==
  LET habit_data == [name |-> request.name,
                     description |-> None,
                     status |-> "pending",
                     streak_days |-> 0,
                     last_completed_at |-> None]
      c == create(habits, next_id, habit_data)
  IN  Return(c.habits, c.next_id, c.ret)

\* HabitService.create_habit
create_habit(habits, next_id, request) ==
  LET habit_data == [name |-> request.name,
                     description |-> request.description,
                     status |-> "pending",
                     streak_days |-> 0,
                     last_completed_at |-> None]
      c == create(habits, next_id, habit_data)
  IN  Return(c.habits, c.next_id, c.ret)

\* Variant: the habit read is taken out of the store.
get_habit_by_id_Pop(habits, next_id, habit_id) ==
  IF InvalidId(habit_id)
  THEN Raise(habits, next_id, "InvalidHabitData",
             InvalidHabitDataError("habit_id", ToString(habit_id),
                                   "Habit ID must be a positive integer"))
  ELSE LET habit == get_by_id(habits, habit_id)
       IN  IF habit = None
           THEN Raise(habits, next_id, "HabitNotFound", HabitNotFoundError(habit_id))
           ELSE Return(DictDel(habits, habit_id), next_id, habit[1])

\* HabitService.get_habit_by_id
get_habit_by_id(habits, next_id, habit_id) ==
  IF InvalidId(habit_id)
  THEN Raise(habits, next_id, "InvalidHabitData",
             InvalidHabitDataError("habit_id", ToString(habit_id),
                                   "Habit ID must be a positive integer"))
  ELSE LET habit == get_by_id(habits, habit_id)
       IN  IF habit = None
           THEN Raise(habits, next_id, "HabitNotFound", HabitNotFoundError(habit_id))
           ELSE Return(habits, next_id, habit[1])

\* HabitService.get_habits
RECURSIVE FilterStatus(_, _)
FilterStatus(hs, status) ==
  IF hs = << >> THEN << >>
  ELSE IF Head(hs).status = status
       THEN <<Head(hs)>> \o FilterStatus(Tail(hs), status)
       ELSE FilterStatus(Tail(hs), status)

get_habits(habits, status) ==
  IF status # None THEN FilterStatus(get_all(habits), status[1])
  ELSE get_all(habits)

\* Variant: an update with no field is not refused.
EmptyRequest_Never(request) == FALSE

\* update_habit: "all(field is None for field in [name, description, status])"
EmptyRequest(request) ==
  request.name = None /\ request.description = None /\ request.status = None

\* Variant: setting status to pending also clears the streak.
UpdatesOf_PendingClearsStreak(request) ==
  LET fields == {f \in {"name", "description", "status"} : request[f] # None}
      given == [f \in fields |-> IF f = "description" THEN request[f] ELSE request[f][1]]
  IN  IF request.status = Some("pending")
      THEN DictMerge(given, [streak_days |-> 0, last_completed_at |-> None])
      ELSE given

\* Variant: the description is always written, also when it is not supplied.
UpdatesOf_DescriptionAlways(request) ==
  LET fields == {f \in {"name", "status"} : request[f] # None} \cup {"description"}
  IN  [f \in fields |-> IF f = "description" THEN request[f] ELSE request[f][1]]

\* update_habit: the updates dict, the request's non-None fields
UpdatesOf(request) ==
  LET fields == {f \in {"name", "description", "status"} : request[f] # None}
  IN  [f \in fields |-> IF f = "description" THEN request[f] ELSE request[f][1]]

\* Variant: the payload is checked before the habit is looked up.
update_habit_PayloadFirst(habits, next_id, habit_id, request) ==
  IF InvalidId(habit_id)
  THEN Raise(habits, next_id, "InvalidHabitData",
             InvalidHabitDataError("habit_id", ToString(habit_id),
                                   "Habit ID must be a positive integer"))
  ELSE IF EmptyRequest(request)
  THEN Raise(habits, next_id, "InvalidHabitData",
             InvalidHabitDataError("update_request", "empty",
                                            "At least one field must be provided for update"))
  ELSE LET u == update(habits, habit_id, UpdatesOf(request))
       IN  IF u.ret = None
           THEN Raise(u.habits, next_id, "HabitNotFound", HabitNotFoundError(habit_id))
           ELSE Return(u.habits, next_id, u.ret[1])

\* HabitService.update_habit
update_habit(habits, next_id, habit_id, request) ==
  IF InvalidId(habit_id)
  THEN Raise(habits, next_id, "InvalidHabitData",
             InvalidHabitDataError("habit_id", ToString(habit_id),
                                   "Habit ID must be a positive integer"))
  ELSE LET existing_habit == get_habit_by_id(habits, next_id, habit_id)
       IN  IF existing_habit.kind # "ok" THEN existing_habit
           ELSE IF EmptyRequest(request)
           THEN Raise(habits, next_id, "InvalidHabitData",
                      InvalidHabitDataError("update_request", "empty",
                                            "At least one field must be provided for update"))
           ELSE LET u == update(habits, habit_id, UpdatesOf(request))
                IN  IF u.ret = None
                    THEN Raise(u.habits, next_id, "HabitNotFound",
                               HabitNotFoundError(habit_id))
                    ELSE Return(u.habits, next_id, u.ret[1])

\* Variant: deleting the habit created last gives its identifier back.
delete_habit_ReleasesId(habits, next_id, habit_id) ==
  IF InvalidId(habit_id)
  THEN Raise(habits, next_id, "InvalidHabitData",
             InvalidHabitDataError("habit_id", ToString(habit_id),
                                   "Habit ID must be a positive integer"))
  ELSE LET d == delete(habits, habit_id)
       IN  IF ~d.ret
           THEN Raise(d.habits, next_id, "HabitNotFound", HabitNotFoundError(habit_id))
           ELSE Return(d.habits, IF habit_id = next_id - 1 THEN habit_id ELSE next_id, None)

\* HabitService.delete_habit
delete_habit(habits, next_id, habit_id) ==
  IF InvalidId(habit_id)
  THEN Raise(habits, next_id, "InvalidHabitData",
             InvalidHabitDataError("habit_id", ToString(habit_id),
                                   "Habit ID must be a positive integer"))
  ELSE LET d == delete(habits, habit_id)
       IN  IF ~d.ret
           THEN Raise(d.habits, next_id, "HabitNotFound", HabitNotFoundError(habit_id))
           ELSE Return(d.habits, next_id, None)

\* Variant: the duplicate check compares against the day after the completion date.
IsDuplicate_NextDay(habit, completion_date) ==
  habit.last_completed_at = Some(completion_date + 1)

\* complete_habit_today: "habit.last_completed_at == completion_date"
IsDuplicate(habit, completion_date) ==
  habit.last_completed_at = Some(completion_date)

\* Variant: a consecutive-day completion does not add to the streak.
_calculate_new_streak_NoIncrement(habit, completion_date) ==
  IF habit.last_completed_at = None THEN 1
  ELSE LET days_diff == completion_date - habit.last_completed_at[1]
       IN  IF days_diff = 1 THEN habit.streak_days ELSE 1

\* Variant: a completion one day before the last one also continues the streak.
_calculate_new_streak_AnyGap(habit, completion_date) ==
  IF habit.last_completed_at = None THEN 1 ELSE habit.streak_days + 1

\* Variant: the day before counts as consecutive too.
_calculate_new_streak_AbsDiff(habit, completion_date) ==
  IF habit.last_completed_at = None THEN 1
  ELSE LET days_diff == completion_date - habit.last_completed_at[1]
       IN  IF days_diff = 1 \/ days_diff = -1 THEN habit.streak_days + 1 ELSE 1

\* Variant: a gap resets the streak to 0.
_calculate_new_streak_ResetZero(habit, completion_date) ==
  IF habit.last_completed_at = None THEN 1
  ELSE LET days_diff == completion_date - habit.last_completed_at[1]
       IN  IF days_diff = 1 THEN habit.streak_days + 1 ELSE 0

\* HabitService._calculate_new_streak
_calculate_new_streak(habit, completion_date) ==
  IF habit.last_completed_at = None THEN 1
  ELSE LET days_diff == completion_date - habit.last_completed_at[1]
       IN  IF days_diff = 1 THEN habit.streak_days + 1 ELSE 1

\* Variant: the completion leaves status as it was.
CompletionUpdates_NoStatus(new_streak_days, completion_date) ==
  [streak_days |-> new_streak_days, last_completed_at |-> Some(completion_date)]

\* Variant: the completion leaves the date of the last completion alone.
CompletionUpdates_NoDate(new_streak_days, completion_date) ==
  [status |-> "completed", streak_days |-> new_streak_days]

\* Variant: the completion also clears the description.
CompletionUpdates_ClearsDescription(new_streak_days, completion_date) ==
  [status |-> "completed", streak_days |-> new_streak_days,
   last_completed_at |-> Some(completion_date), description |-> None]

\* complete_habit_today: the updates dict written back
CompletionUpdates(new_streak_days, completion_date) ==
  [status |-> "completed", streak_days |-> new_streak_days,
   last_completed_at |-> Some(completion_date)]

\* complete_habit_today: "if completion_date is None: completion_date = date.today()"
EffectiveDate(completion_date, td) ==
  IF completion_date = None THEN td ELSE completion_date[1]

\* Variant: no completion date is refused.
IsFutureDate_Never(completion_date, td) == FALSE

\* Variant: the date check also rejects today.
IsFutureDate_TodayIncluded(completion_date, td) == completion_date >= td

\* complete_habit_today: "completion_date > today"
IsFutureDate(completion_date, td) == completion_date > td

\* Variant: the habit is looked up before the date is checked.
complete_habit_today_ExistenceFirst(habits, next_id, td, habit_id, completion_date_arg) ==
  IF InvalidId(habit_id)
  THEN Raise(habits, next_id, "InvalidHabitData",
             InvalidHabitDataError("habit_id", ToString(habit_id),
                                   "Habit ID must be a positive integer"))
  ELSE LET completion_date == EffectiveDate(completion_date_arg, td)
           got == get_habit_by_id(habits, next_id, habit_id)
       IN  IF got.kind # "ok" THEN got
           ELSE IF IsFutureDate(completion_date, td)
           THEN Raise(habits, next_id, "InvalidHabitData",
                      InvalidHabitDataError("completion_date", isoformat(completion_date),
                                            "Cannot complete habits for future dates"))
           ELSE LET habit == got.value
                IN  IF IsDuplicate(habit, completion_date)
                    THEN Raise(habits, next_id, "DuplicateCompletion",
                               DuplicateCompletionError(habit.name, isoformat(completion_date)))
                    ELSE LET u == update(habits, habit_id,
                                         CompletionUpdates(_calculate_new_streak(habit, completion_date),
                                                           completion_date))
                         IN  Return(u.habits, next_id, u.ret[1])

\* Variant: the status is written before the duplicate check.
complete_habit_today_WriteThenCheck(habits, next_id, td, habit_id, completion_date_arg) ==
  IF InvalidId(habit_id)
  THEN Raise(habits, next_id, "InvalidHabitData",
             InvalidHabitDataError("habit_id", ToString(habit_id),
                                   "Habit ID must be a positive integer"))
  ELSE LET completion_date == EffectiveDate(completion_date_arg, td)
       IN  IF IsFutureDate(completion_date, td)
           THEN Raise(habits, next_id, "InvalidHabitData",
                      InvalidHabitDataError("completion_date", isoformat(completion_date),
                                            "Cannot complete habits for future dates"))
           ELSE LET got == get_habit_by_id(habits, next_id, habit_id)
                IN  IF got.kind # "ok" THEN got
                    ELSE LET habit == got.value
                             w == update(habits, habit_id, [status |-> "completed"])
                         IN  IF IsDuplicate(habit, completion_date)
                             THEN Raise(w.habits, next_id, "DuplicateCompletion",
                                        DuplicateCompletionError(habit.name, isoformat(completion_date)))
                             ELSE LET u == update(w.habits, habit_id,
                                                  CompletionUpdates(_calculate_new_streak(habit, completion_date),
                                                                    completion_date))
                                  IN  Return(u.habits, next_id, u.ret[1])

\* HabitService.complete_habit_today
complete_habit_today(habits, next_id, td, habit_id, completion_date_arg) ==
  IF InvalidId(habit_id)
  THEN Raise(habits, next_id, "InvalidHabitData",
             InvalidHabitDataError("habit_id", ToString(habit_id),
                                   "Habit ID must be a positive integer"))
  ELSE LET completion_date == EffectiveDate(completion_date_arg, td)
       IN  IF IsFutureDate(completion_date, td)
           THEN Raise(habits, next_id, "InvalidHabitData",
                      InvalidHabitDataError("completion_date", isoformat(completion_date),
                                            "Cannot complete habits for future dates"))
           ELSE LET got == get_habit_by_id(habits, next_id, habit_id)
                IN  IF got.kind # "ok" THEN got
                    ELSE LET habit == got.value
                         IN  IF IsDuplicate(habit, completion_date)
                             THEN Raise(habits, next_id, "DuplicateCompletion",
                                        DuplicateCompletionError(habit.name, isoformat(completion_date)))
                             ELSE LET new_streak_days == _calculate_new_streak(habit, completion_date)
                                      u == update(habits, habit_id,
                                                  CompletionUpdates(new_streak_days, completion_date))
                                  IN  IF u.ret = None
                                      THEN Raise(u.habits, next_id, "HabitNotFound",
                                                 HabitNotFoundError(habit_id))
                                      ELSE Return(u.habits, next_id, u.ret[1])

\* complete_habit_today up to its repository.update: the checks, the habit read
\* and the updates dict built from it.
complete_habit_today_read(habits, next_id, td, habit_id, completion_date_arg) ==
  IF InvalidId(habit_id)
  THEN Raise(habits, next_id, "InvalidHabitData",
             InvalidHabitDataError("habit_id", ToString(habit_id),
                                   "Habit ID must be a positive integer"))
  ELSE LET completion_date == EffectiveDate(completion_date_arg, td)
       IN  IF IsFutureDate(completion_date, td)
           THEN Raise(habits, next_id, "InvalidHabitData",
                      InvalidHabitDataError("completion_date", isoformat(completion_date),
                                            "Cannot complete habits for future dates"))
           ELSE LET got == get_habit_by_id(habits, next_id, habit_id)
                IN  IF got.kind # "ok" THEN got
                    ELSE LET habit == got.value
                         IN  IF IsDuplicate(habit, completion_date)
                             THEN Raise(habits, next_id, "DuplicateCompletion",
                                        DuplicateCompletionError(habit.name, isoformat(completion_date)))
                             ELSE Return(habits, next_id,
                                         [habit |-> habit,
                                          updates |-> CompletionUpdates(
                                            _calculate_new_streak(habit, completion_date),
                                            completion_date)])

\* update_habit up to its repository.update
update_habit_read(habits, next_id, habit_id, request) ==
  IF InvalidId(habit_id)
  THEN Raise(habits, next_id, "InvalidHabitData",
             InvalidHabitDataError("habit_id", ToString(habit_id),
                                   "Habit ID must be a positive integer"))
  ELSE LET existing_habit == get_habit_by_id(habits, next_id, habit_id)
       IN  IF existing_habit.kind # "ok" THEN existing_habit
           ELSE IF EmptyRequest(request)
           THEN Raise(habits, next_id, "InvalidHabitData",
                      InvalidHabitDataError("update_request", "empty",
                                            "At least one field must be provided for update"))
           ELSE Return(habits, next_id,
                       [habit |-> existing_habit.value, updates |-> UpdatesOf(request)])

\* Variant: the write stores the updates although the habit is gone.
update_or_raise_Upsert(habits, next_id, habit_id, updates) ==
  LET u == update_Upsert(habits, habit_id, updates)
  IN  Return(u.habits, next_id, u.ret[1])

\* The end of complete_habit_today and of update_habit:
\* "updated_habit = self.repository.update(habit_id, updates)
\*  if updated_habit is None: raise HabitNotFoundError(habit_id)"
update_or_raise(habits, next_id, habit_id, updates) ==
  LET u == update(habits, habit_id, updates)
  IN  IF u.ret = None
      THEN Raise(u.habits, next_id, "HabitNotFound", HabitNotFoundError(habit_id))
      ELSE Return(u.habits, next_id, u.ret[1])

\* Variant: completed_today counts the habits whose status is completed.
RECURSIVE CountCompletedToday_ByStatus(_, _)
CountCompletedToday_ByStatus(hs, td) ==
  IF hs = << >> THEN 0
  ELSE (IF Head(hs).status = "completed" THEN 1 ELSE 0)
       + CountCompletedToday_ByStatus(Tail(hs), td)

\* get_stats: sum(1 for habit in habits if habit.last_completed_at == today)
RECURSIVE CountCompletedToday(_, _)
CountCompletedToday(hs, td) ==
  IF hs = << >> THEN 0
  ELSE (IF Head(hs).last_completed_at = Some(td) THEN 1 ELSE 0)
       + CountCompletedToday(Tail(hs), td)

\* get_stats: sum(1 for habit in habits if habit.streak_days >= 3)
RECURSIVE CountActiveStreaks(_)
CountActiveStreaks(hs) ==
  IF hs = << >> THEN 0
  ELSE (IF Head(hs).streak_days >= 3 THEN 1 ELSE 0) + CountActiveStreaks(Tail(hs))

\* Variant: a streak counts as active only if the habit was completed today
\* or yesterday.
get_stats_ActiveRecent(habits, td) ==
  LET hs == get_all(habits)
      recent == SelectSeq(hs, LAMBDA h : /\ h.last_completed_at # None
                                        /\ h.last_completed_at[1] >= td - 1)
  IN  [total_habits |-> Len(hs),
       completed_today |-> CountCompletedToday(hs, td),
       active_streaks_ge_3 |-> CountActiveStreaks(recent)]

\* HabitService.get_stats
get_stats(habits, td) ==
  LET hs == get_all(habits)
  IN  [total_habits |-> Len(hs),
       completed_today |-> CountCompletedToday(hs, td),
       active_streaks_ge_3 |-> CountActiveStreaks(hs)]

\* ------------------------------------------------------------- main.py
\* A member of a JSON request body: left out, null, or a string.
Absent == <<"absent">>
JsonNull == <<"null">>
JsonString(x) == <<"string", x>>
JsonField(S) == {Absent, JsonNull} \cup {JsonString(x) : x \in S}

\* Bodies of PATCH /habits/{habit_id}; "done" is not a status.
PatchBodies ==
  [name : JsonField({"Read"}), description : JsonField(Descriptions),
   status : JsonField(Statuses \cup {"done"})]

\* UpdateHabitRequest validation: status is Literal["pending", "completed"]
\* (name and description are drawn within their length limits).
ValidUpdateBody(body) ==
  body.status \in {Absent, JsonNull} \/ body.status[2] \in Statuses

\* An Optional field with default None: a member left out and a null member
\* both give None.
ParseField(v) == IF v \in {Absent, JsonNull} THEN None ELSE Some(v[2])

\* UpdateHabitRequest(**body)
ParseUpdateHabitRequest(body) ==
  [name |-> ParseField(body.name), description |-> ParseField(body.description),
   status |-> ParseField(body.status)]

\* Texts at the limits of the length constraints: "a" * 80, "a" * 81,
\* "d" * 280 and "d" * 281.
Name80 == "aaaaaaaaaaaaaaaaaaaaaaaaaaaaaaaaaaaaaaaaaaaaaaaaaaaaaaaaaaaaaaaaaaaaaaaaaaaaaaaa"
Name81 == "aaaaaaaaaaaaaaaaaaaaaaaaaaaaaaaaaaaaaaaaaaaaaaaaaaaaaaaaaaaaaaaaaaaaaaaaaaaaaaaaa"
Description280 == "dddddddddddddddddddddddddddddddddddddddddddddddddddddddddddddddddddddddddddddddddddddddddddddddddddddddddddddddddddddddddddddddddddddddddddddddddddddddddddddddddddddddddddddddddddddddddddddddddddddddddddddddddddddddddddddddddddddddddddddddddddddddddddddddddddddddddddddddddddddddd"
Description281 == "ddddddddddddddddddddddddddddddddddddddddddddddddddddddddddddddddddddddddddddddddddddddddddddddddddddddddddddddddddddddddddddddddddddddddddddddddddddddddddddddddddddddddddddddddddddddddddddddddddddddddddddddddddddddddddddddddddddddddddddddddddddddddddddddddddddddddddddddddddddddddd"

\* len(s), for the texts that requests carry here.
len(s) ==
  CASE s = "" -> 0
    [] s = "Read" -> 4
    [] s = "daily" -> 5
    [] s = "Exercise" -> 8
    [] s = Name80 -> 80
    [] s = Name81 -> 81
    [] s = Description280 -> 280
    [] s = Description281 -> 281

\* Bodies of POST /habits.
PostBodies ==
  [name : {Absent} \cup {JsonString(x) : x \in {"", "Exercise", Name80, Name81}},
   description : JsonField({"daily", Description280, Description281})]

\* Variant: a name of 81 characters passes.
ValidCreateBody_NameUpTo81(body) ==
  /\ body.name # Absent
  /\ body.name # JsonNull
  /\ len(body.name[2]) >= 1
  /\ len(body.name[2]) <= 81
  /\ body.description \in {Absent, JsonNull} \/ len(body.description[2]) <= 280

\* CreateHabitRequest validation: name is a required str with min_length=1 and
\* max_length=80, description an optional str with max_length=280.
ValidCreateBody(body) ==
  /\ body.name # Absent
  /\ body.name # JsonNull
  /\ len(body.name[2]) >= 1
  /\ len(body.name[2]) <= 80
  /\ body.description \in {Absent, JsonNull} \/ len(body.description[2]) <= 280

\* CreateHabitRequest(**body)
ParseCreateHabitRequest(body) ==
  [name |-> body.name[2], description |-> ParseField(body.description)]

\* POST /habits (status_code=201): the store it leaves and the response.
post_habit(habits, next_id, body) ==
  IF ~ValidCreateBody(body)
  THEN [habits |-> habits, next_id |-> next_id, kind |-> "RequestValidationError",
        value |-> [status_code |-> 422, content |-> None]]
  ELSE LET out == create_habit(habits, next_id, ParseCreateHabitRequest(body))
       IN  [habits |-> out.habits, next_id |-> out.next_id, kind |-> out.kind,
            value |-> [status_code |-> 201, content |-> out.value]]

\* Variant: a duplicate completion is answered like invalid data.
status_code_DuplicateAs400(kind) ==
  CASE kind = "ok" -> 200
    [] kind = "HabitNotFound" -> 404
    [] kind = "DuplicateCompletion" -> 400
    [] kind = "InvalidHabitData" -> 400

\* The exception handlers, and the route's own status on success.
status_code(kind) ==
  CASE kind = "ok" -> 200
    [] kind = "HabitNotFound" -> 404
    [] kind = "DuplicateCompletion" -> 409
    [] kind = "InvalidHabitData" -> 400

\* The JSON content: what the route returned, or what the handler of the
\* exception builds from its attributes.
content(kind, value) ==
  CASE kind = "ok" -> value
    [] kind = "HabitNotFound" ->
         [error |-> value.message, error_code |-> value.error_code,
          habit_id |-> value.habit_id]
    [] kind = "DuplicateCompletion" ->
         [error |-> value.message, error_code |-> value.error_code,
          habit_name |-> value.habit_name, completion_date |-> value.completion_date]
    [] kind = "InvalidHabitData" ->
         [error |-> value.message, error_code |-> value.error_code,
          field |-> value.field, value |-> value.value,
          constraint |-> value.constraint]

\* The response to a request whose parameters passed validation: success is
\* the status of the route's decorator.
respond(out, success) ==
  [habits |-> out.habits, next_id |-> out.next_id, kind |-> out.kind,
   value |-> [status_code |-> IF out.kind = "ok" THEN success ELSE status_code(out.kind),
              content |-> content(out.kind, out.value)]]

\* A request refused by the validation of its parameters.
unprocessable(habits, next_id) ==
  [habits |-> habits, next_id |-> next_id, kind |-> "RequestValidationError",
   value |-> [status_code |-> 422, content |-> None]]

\* PATCH /habits/{habit_id}: the store it leaves and the response.
patch_habit(habits, next_id, habit_id, body) ==
  IF ~ValidUpdateBody(body)
  THEN [habits |-> habits, next_id |-> next_id, kind |-> "RequestValidationError",
        value |-> [status_code |-> 422, content |-> None]]
  ELSE LET out == update_habit(habits, next_id, habit_id, ParseUpdateHabitRequest(body))
       IN  [habits |-> out.habits, next_id |-> out.next_id, kind |-> out.kind,
            value |-> [status_code |-> status_code(out.kind),
                       content |-> content(out.kind, out.value)]]

\* GET /habits?status=...: the query parameter is Literal["pending", "completed"].
get_habits_route(habits, next_id, status) ==
  IF status # None /\ status[1] \notin Statuses
  THEN unprocessable(habits, next_id)
  ELSE respond(Return(habits, next_id, get_habits(habits, status)), 200)

\* DELETE /habits/{habit_id} (status_code=204)
delete_habit_route(habits, next_id, habit_id) ==
  respond(delete_habit(habits, next_id, habit_id), 204)

\* POST /habits/{habit_id}/complete: the completion is for today.
complete_habit(habits, next_id, td, habit_id) ==
  respond(complete_habit_today(habits, next_id, td, habit_id, None), 200)

\* GET /stats
get_stats_route(habits, next_id, td) ==
  respond(Return(habits, next_id, get_stats(habits, td)), 200)

\* ------------------------------------------------------------ state machine
\* The record of a service call: its arguments (None where it has none), the
\* stored habit it names as it was before the call, and its outcome.
Called(op, habit_id, request, completion_date, out) ==
  [op |-> op, habit_id |-> habit_id, request |-> request,
   completion_date |-> completion_date,
   before |-> IF habit_id = None THEN None ELSE get_by_id(_habits, habit_id[1]),
   kind |-> out.kind, value |-> out.value]

\* The threads that call the service, and a thread that is in no call.
Threads == 1 .. 2
Idle == [pc |-> "idle"]

\* habit_repository = HabitRepository(); habit_service = HabitService(habit_repository)
Init ==
  /\ _habits = RepositoryInit.habits
  /\ _next_id = RepositoryInit.next_id
  /\ today = MaxDay - 1
  /\ call = [op |-> "none", habit_id |-> None, request |-> None,
             completion_date |-> None, before |-> None, kind |-> "ok",
             value |-> None]
  /\ completions = [i \in 1 .. MaxHabits |-> {}]
  /\ created = 0
  /\ latest = [i \in 1 .. MaxHabits |-> None]
  /\ threads = [t \in Threads |-> Idle]

\* habit_service.create_habit(request), while fewer than cap habits were created
CreateHabit(request, cap) ==
  /\ _next_id <= cap
  /\ LET out == create_habit(_habits, _next_id, request)
     IN  /\ _habits' = out.habits
         /\ _next_id' = out.next_id
         /\ call' = Called("create_habit", None, Some(request), None, out)
         /\ created' = IF out.kind = "ok" THEN created + 1 ELSE created
  /\ UNCHANGED today

\* habit_service.get_habits(status)
GetHabits(status) ==
  /\ call' = Called("get_habits", None, status, None,
                    Return(_habits, _next_id, get_habits(_habits, status)))
  /\ UNCHANGED <<_habits, _next_id, today, created>>

\* habit_service.get_habit_by_id(habit_id)
GetHabitById(habit_id) ==
  /\ LET out == get_habit_by_id(_habits, _next_id, habit_id)
     IN  /\ _habits' = out.habits
         /\ _next_id' = out.next_id
         /\ call' = Called("get_habit_by_id", Some(habit_id), None, None, out)
  /\ UNCHANGED <<today, created>>

\* habit_service.update_habit(habit_id, request)
UpdateHabit(habit_id, request) ==
  /\ LET out == update_habit(_habits, _next_id, habit_id, request)
     IN  /\ _habits' = out.habits
         /\ _next_id' = out.next_id
         /\ call' = Called("update_habit", Some(habit_id), Some(request), None, out)
  /\ UNCHANGED <<today, created>>

\* client.patch(f"/habits/{habit_id}", json=body)
PatchHabit(habit_id, body) ==
  /\ LET out == patch_habit(_habits, _next_id, habit_id, body)
     IN  /\ _habits' = out.habits
         /\ _next_id' = out.next_id
         /\ call' = Called("PATCH /habits/{habit_id}", Some(habit_id), Some(body), None, out)
  /\ UNCHANGED <<today, created>>

\* client.post("/habits", json=body), while fewer than cap habits were created
PostHabit(body, cap) ==
  /\ _next_id <= cap
  /\ LET out == post_habit(_habits, _next_id, body)
     IN  /\ _habits' = out.habits
         /\ _next_id' = out.next_id
         /\ call' = Called("POST /habits", None, Some(body), None, out)
         /\ created' = IF out.kind = "ok" THEN created + 1 ELSE created
  /\ UNCHANGED today

\* client.get("/habits", params={"status": status})
GetHabitsRoute(status) ==
  /\ LET out == get_habits_route(_habits, _next_id, status)
     IN  /\ _habits' = out.habits
         /\ _next_id' = out.next_id
         /\ call' = Called("GET /habits", None, status, None, out)
  /\ UNCHANGED <<today, created>>

\* client.delete(f"/habits/{habit_id}")
DeleteHabitRoute(habit_id) ==
  /\ LET out == delete_habit_route(_habits, _next_id, habit_id)
     IN  /\ _habits' = out.habits
         /\ _next_id' = out.next_id
         /\ call' = Called("DELETE /habits/{habit_id}", Some(habit_id), None, None, out)
  /\ UNCHANGED <<today, created>>

\* client.post(f"/habits/{habit_id}/complete")
CompleteHabitRoute(habit_id) ==
  /\ LET out == complete_habit(_habits, _next_id, today, habit_id)
     IN  /\ _habits' = out.habits
         /\ _next_id' = out.next_id
         /\ call' = Called("POST /habits/{habit_id}/complete", Some(habit_id), None,
                           Some(today), out)
  /\ UNCHANGED <<today, created>>

\* client.get("/stats")
GetStatsRoute ==
  /\ LET out == get_stats_route(_habits, _next_id, today)
     IN  /\ _habits' = out.habits
         /\ _next_id' = out.next_id
         /\ call' = Called("GET /stats", None, None, None, out)
  /\ UNCHANGED <<today, created>>

\* habit_service.delete_habit(habit_id)
DeleteHabit(habit_id) ==
  /\ LET out == delete_habit(_habits, _next_id, habit_id)
     IN  /\ _habits' = out.habits
         /\ _next_id' = out.next_id
         /\ call' = Called("delete_habit", Some(habit_id), None, None, out)
  /\ UNCHANGED <<today, created>>

\* habit_service.complete_habit_today(habit_id, completion_date)
CompleteHabit(habit_id, completion_date) ==
  /\ LET out == complete_habit_today(_habits, _next_id, today, habit_id, completion_date)
     IN  /\ _habits' = out.habits
         /\ _next_id' = out.next_id
         /\ call' = Called("complete_habit_today", Some(habit_id), None,
                           Some(EffectiveDate(completion_date, today)), out)
  /\ UNCHANGED <<today, created>>

\* habit_service.get_stats()
GetStats ==
  /\ call' = Called("get_stats", None, None, None,
                    Return(_habits, _next_id, get_stats(_habits, today)))
  /\ UNCHANGED <<_habits, _next_id, today, created>>

\* Variant: at midnight every habit goes back to pending.
Tick_ResetsStatus ==
  /\ today < MaxDay
  /\ today' = today + 1
  /\ _habits' = [i \in 1 .. Len(_habits) |->
                   [_habits[i] EXCEPT !.value.status = "pending"]]
  /\ UNCHANGED <<_next_id, call, completions, created, latest, threads>>

\* habit_repository.clear()
Clear ==
  /\ LET c == clear(_habits, _next_id)
     IN  /\ _habits' = c.habits
         /\ _next_id' = c.next_id
  /\ call' = Called("clear", None, None, None, [kind |-> "ok", value |-> None])
  /\ UNCHANGED today

\* The count of creations goes on over a clear, or starts again with it.
CountOn == UNCHANGED created
CountAgain == created' = 0

\* repository.create(habit_data), while fewer than cap habits were created
RepositoryCreate(habit_data, cap) ==
  /\ created < cap
  /\ LET c == create(_habits, _next_id, habit_data)
     IN  /\ _habits' = c.habits
         /\ _next_id' = c.next_id
         /\ call' = Called("repository.create", None, Some(habit_data), None,
                           [kind |-> "ok", value |-> c.ret])
  /\ created' = created + 1
  /\ UNCHANGED today

\* repository.get_by_id(habit_id)
RepositoryGetById(habit_id) ==
  /\ call' = Called("repository.get_by_id", Some(habit_id), None, None,
                    [kind |-> "ok", value |-> get_by_id(_habits, habit_id)])
  /\ UNCHANGED <<_habits, _next_id, today, created>>

\* repository.update(habit_id, updates)
RepositoryUpdate(habit_id, updates) ==
  /\ LET u == update(_habits, habit_id, updates)
     IN  /\ _habits' = u.habits
         /\ call' = Called("repository.update", Some(habit_id), Some(updates), None,
                           [kind |-> "ok", value |-> u.ret])
  /\ UNCHANGED <<_next_id, today, created>>

\* repository.delete(habit_id)
RepositoryDelete(habit_id) ==
  /\ LET d == delete(_habits, habit_id)
     IN  /\ _habits' = d.habits
         /\ call' = Called("repository.delete", Some(habit_id), None, None,
                           [kind |-> "ok", value |-> d.ret])
  /\ UNCHANGED <<_next_id, today, created>>

\* A thread in a call: where it is, the call and its arguments, the habit it
\* read and the updates it built, whether the other thread was between its
\* read and its write at some time during the call, and the outcome.
InCall(pc, op, habit_id, completion_date, r, concurrent) ==
  [pc |-> pc, op |-> op, habit_id |-> habit_id, completion_date |-> completion_date,
   habit |-> IF r.kind = "ok" /\ pc = "write" THEN Some(r.value.habit) ELSE None,
   updates |-> IF r.kind = "ok" /\ pc = "write" THEN Some(r.value.updates) ELSE None,
   concurrent |-> concurrent, kind |-> r.kind,
   value |-> IF pc = "write" THEN None ELSE r.value]

\* Thread t enters a call whose first part came out as r: every other thread
\* that is between its read and its write now runs concurrently with it.
Enter(t, op, habit_id, completion_date, r) ==
  LET others == {u \in Threads \ {t} : threads[u].pc = "write"}
  IN  threads' =
        [u \in Threads |->
           IF u = t
           THEN InCall(IF r.kind = "ok" THEN "write" ELSE "done", op, habit_id,
                       completion_date, r, others # {})
           ELSE IF u \in others THEN [threads[u] EXCEPT !.concurrent = TRUE]
           ELSE threads[u]]

\* Thread t calls complete_habit_today(habit_id, completion_date) and runs it
\* up to the repository.update.
CompleteRead(t, habit_id, completion_date) ==
  /\ threads[t].pc = "idle"
  /\ Enter(t, "complete_habit_today", habit_id,
           Some(EffectiveDate(completion_date, today)),
           complete_habit_today_read(_habits, _next_id, today, habit_id, completion_date))
  /\ UNCHANGED <<_habits, _next_id, today, call, completions, created, latest>>

\* Thread t calls update_habit(habit_id, request) and runs it up to the
\* repository.update.
UpdateRead(t, habit_id, request) ==
  /\ threads[t].pc = "idle"
  /\ Enter(t, "update_habit", habit_id, None,
           update_habit_read(_habits, _next_id, habit_id, request))
  /\ UNCHANGED <<_habits, _next_id, today, call, completions, created, latest>>

\* Thread t runs the repository.update of its call and the call ends.
Write(t) ==
  /\ threads[t].pc = "write"
  /\ LET out == update_or_raise(_habits, _next_id, threads[t].habit_id,
                                threads[t].updates[1])
     IN  /\ _habits' = out.habits
         /\ _next_id' = out.next_id
         /\ threads' = [threads EXCEPT ![t].pc = "done", ![t].kind = out.kind,
                                       ![t].value = out.value]
  /\ UNCHANGED <<today, call, completions, created, latest>>

\* Thread t is ready for its next call.
Leave(t) ==
  /\ threads[t].pc = "done"
  /\ threads' = [threads EXCEPT ![t] = Idle]
  /\ UNCHANGED <<_habits, _next_id, today, call, completions, created, latest>>

\* Midnight, on days up to a later last day.
TickUntil(last) ==
  /\ today < last
  /\ today' = today + 1
  /\ UNCHANGED <<_habits, _next_id, call, completions, created, latest, threads>>

\* Midnight: date.today() moves to the next day.
Tick ==
  /\ today < MaxDay
  /\ today' = today + 1
  /\ UNCHANGED <<_habits, _next_id, call, completions, created, latest, threads>>

\* The history of successful completions after the call just made: a
\* completion adds its date, a deletion forgets the habit's dates.
Record ==
  /\ completions' =
       IF /\ call'.op \in {"complete_habit_today", "POST /habits/{habit_id}/complete"}
          /\ call'.kind = "ok"
       THEN [completions EXCEPT ![call'.habit_id[1]] = @ \cup {call'.completion_date[1]}]
       ELSE IF /\ call'.op \in {"delete_habit", "DELETE /habits/{habit_id}"}
               /\ call'.kind = "ok"
       THEN [completions EXCEPT ![call'.habit_id[1]] = {}]
       ELSE completions
  /\ UNCHANGED <<latest, threads>>

\* The history is not kept.
NoRecord == UNCHANGED <<completions, latest, threads>>

\* The date of the latest successful completion after the call just made: a
\* completion sets it, a deletion forgets it.
RecordLatest ==
  /\ latest' =
       IF call'.op = "complete_habit_today" /\ call'.kind = "ok"
       THEN [latest EXCEPT ![call'.habit_id[1]] = call'.completion_date]
       ELSE IF call'.op = "delete_habit" /\ call'.kind = "ok"
       THEN [latest EXCEPT ![call'.habit_id[1]] = None]
       ELSE latest
  /\ UNCHANGED <<completions, threads>>

\* Requests that leave name and description alone: the completion and streak
\* engine under every completion date, as days pass.
StreakCreates == [name : {"Exercise"}, description : {None}]
StreakUpdates == [name : {None}, description : {None}, status : Optional(Statuses)]

Next ==
  \/ \E request \in StreakCreates : CreateHabit(request, MaxHabits) /\ NoRecord
  \/ \E status \in Optional(Statuses) : GetHabits(status) /\ NoRecord
  \/ \E habit_id \in HabitIds : GetHabitById(habit_id) /\ NoRecord
  \/ \E habit_id \in HabitIds, request \in StreakUpdates :
       UpdateHabit(habit_id, request) /\ NoRecord
  \/ \E habit_id \in HabitIds : DeleteHabit(habit_id) /\ NoRecord
  \/ \E habit_id \in HabitIds, completion_date \in Optional(Dates) :
       CompleteHabit(habit_id, completion_date) /\ NoRecord
  \/ GetStats /\ NoRecord
  \/ Tick

Spec == Init /\ [][Next]_vars

\* The same calls, with the history of successful completions kept.
HistoryNext ==
  \/ \E request \in StreakCreates : CreateHabit(request, MaxHabits) /\ Record
  \/ \E status \in Optional(Statuses) : GetHabits(status) /\ Record
  \/ \E habit_id \in HabitIds : GetHabitById(habit_id) /\ Record
  \/ \E habit_id \in HabitIds, request \in StreakUpdates :
       UpdateHabit(habit_id, request) /\ Record
  \/ \E habit_id \in HabitIds : DeleteHabit(habit_id) /\ Record
  \/ \E habit_id \in HabitIds, completion_date \in Optional(Dates) :
       CompleteHabit(habit_id, completion_date) /\ Record
  \/ GetStats /\ Record
  \/ Tick

SpecHistory == Init /\ [][HistoryNext]_vars

\* The calls the HTTP routes of main.py make within one day: requests with
\* every combination of fields present and absent, and completions without a
\* date (POST /habits/{id}/complete).
ApiCreates == [name : {"Exercise"}, description : Optional(Descriptions)]
ApiUpdates ==
  [name : Optional({"Read"}), description : Optional(Descriptions),
   status : Optional(Statuses)]

ApiNext ==
  \/ \E request \in ApiCreates : CreateHabit(request, MaxHabits) /\ NoRecord
  \/ \E status \in Optional(Statuses) : GetHabits(status) /\ NoRecord
  \/ \E habit_id \in HabitIds : GetHabitById(habit_id) /\ NoRecord
  \/ \E habit_id \in HabitIds, request \in ApiUpdates :
       UpdateHabit(habit_id, request) /\ NoRecord
  \/ \E habit_id \in HabitIds : DeleteHabit(habit_id) /\ NoRecord
  \/ \E habit_id \in HabitIds, completion_date \in {None} :
       CompleteHabit(habit_id, completion_date) /\ NoRecord
  \/ GetStats /\ NoRecord

SpecApi == Init /\ [][ApiNext]_vars

\* The requests of the HTTP tests on PATCH: a habit is created, completed and
\* patched with every body.
HttpNext ==
  \/ \E request \in ApiCreates : CreateHabit(request, MaxHabits) /\ NoRecord
  \/ \E habit_id \in HabitIds, body \in PatchBodies :
       PatchHabit(habit_id, body) /\ NoRecord
  \/ \E habit_id \in HabitIds : CompleteHabit(habit_id, None) /\ NoRecord

SpecHttp == Init /\ [][HttpNext]_vars

\* Calls on identifiers of every kind within one day: negative, zero, never
\* assigned, stored and deleted, while habits go on being created; completions
\* are dated today or tomorrow.
ErrorIds == -1 .. MaxHabits + 2

ErrorsNext ==
  \/ \E request \in StreakCreates : CreateHabit(request, MaxHabits + 1) /\ NoRecord
  \/ \E habit_id \in ErrorIds : GetHabitById(habit_id) /\ NoRecord
  \/ \E habit_id \in ErrorIds, request \in StreakUpdates :
       UpdateHabit(habit_id, request) /\ NoRecord
  \/ \E habit_id \in ErrorIds : DeleteHabit(habit_id) /\ NoRecord
  \/ \E habit_id \in ErrorIds, completion_date \in {None, Some(MaxDay)} :
       CompleteHabit(habit_id, completion_date) /\ NoRecord

SpecErrors == Init /\ [][ErrorsNext]_vars

\* Updates of one habit among several: habits are created with and without a
\* description and updated with every combination of fields.
UpdatesNext ==
  \/ \E request \in ApiCreates : CreateHabit(request, MaxHabits + 1) /\ NoRecord
  \/ \E habit_id \in 0 .. MaxHabits + 1, request \in ApiUpdates :
       UpdateHabit(habit_id, request) /\ NoRecord

SpecUpdates == Init /\ [][UpdatesNext]_vars

\* Completions of several habits as days pass, dated today or on the first
\* day.
StreaksNext ==
  \/ \E request \in ApiCreates : CreateHabit(request, MaxHabits + 1) /\ NoRecord
  \/ \E habit_id \in 1 .. MaxHabits + 1, completion_date \in {None, Some(0)} :
       CompleteHabit(habit_id, completion_date) /\ NoRecord
  \/ Tick

SpecStreaks == Init /\ [][StreaksNext]_vars

\* POST /habits with names and descriptions at and beyond the length limits.
PostNext ==
  \/ \E body \in PostBodies : PostHabit(body, MaxHabits + 1) /\ NoRecord
  \/ \E habit_id \in 1 .. MaxHabits + 1 : DeleteHabit(habit_id) /\ NoRecord

SpecPost == Init /\ [][PostNext]_vars

\* Reads among writes within one day: several habits are created, set to
\* either status, completed today and deleted, and are listed, read and
\* counted in between.
ListNext ==
  \/ \E request \in StreakCreates : CreateHabit(request, MaxHabits + 1) /\ NoRecord
  \/ \E status \in Optional(Statuses) : GetHabits(status) /\ NoRecord
  \/ \E habit_id \in 0 .. MaxHabits + 1 : GetHabitById(habit_id) /\ NoRecord
  \/ \E habit_id \in 1 .. MaxHabits + 1, request \in StreakUpdates :
       UpdateHabit(habit_id, request) /\ NoRecord
  \/ \E habit_id \in 1 .. MaxHabits + 1 : DeleteHabit(habit_id) /\ NoRecord
  \/ \E habit_id \in 1 .. MaxHabits + 1 : CompleteHabit(habit_id, None) /\ NoRecord
  \/ GetStats /\ NoRecord

SpecList == Init /\ [][ListNext]_vars

\* The service on a repository that is cleared now and then, as the test
\* fixtures do; MaxHabits + 2 habits are created in all.
ClearNext ==
  \/ \E request \in StreakCreates :
       created < MaxHabits + 2 /\ CreateHabit(request, MaxHabits + 2) /\ NoRecord
  \/ \E habit_id \in 1 .. MaxHabits + 1 : DeleteHabit(habit_id) /\ NoRecord
  \/ \E habit_id \in 1 .. MaxHabits + 1 : CompleteHabit(habit_id, None) /\ NoRecord
  \/ Clear /\ CountOn /\ NoRecord

SpecClear == Init /\ [][ClearNext]_vars

\* The repository called directly, on stored, deleted and never assigned
\* identifiers.
RepositoryData ==
  [name : {"Exercise"}, description : {None}, status : {"pending"},
   streak_days : {0}, last_completed_at : {None}]
RepositoryUpdates == {[name |-> "Read"], [status |-> "completed", streak_days |-> 1]}

RepositoryNext ==
  \/ \E habit_data \in RepositoryData :
       RepositoryCreate(habit_data, MaxHabits + 1) /\ NoRecord
  \/ \E habit_id \in 0 .. MaxHabits + 2 : RepositoryGetById(habit_id) /\ NoRecord
  \/ \E habit_id \in 0 .. MaxHabits + 2, updates \in RepositoryUpdates :
       RepositoryUpdate(habit_id, updates) /\ NoRecord
  \/ \E habit_id \in 0 .. MaxHabits + 2 : RepositoryDelete(habit_id) /\ NoRecord

SpecRepository == Init /\ [][RepositoryNext]_vars

\* Every route of the application within one day, with a few bodies each:
\* valid ones, an empty update and values the request models refuse.
RoutePosts ==
  [name : {JsonString("Exercise"), JsonString("")}, description : {Absent}]
RoutePatches ==
  [name : {Absent}, description : {Absent},
   status : {Absent, JsonString("pending"), JsonString("done")}]

RoutesNext ==
  \/ \E body \in RoutePosts : PostHabit(body, MaxHabits + 1) /\ NoRecord
  \/ \E status \in Optional(Statuses \cup {"done"}) : GetHabitsRoute(status) /\ NoRecord
  \/ \E habit_id \in 0 .. MaxHabits + 1, body \in RoutePatches :
       PatchHabit(habit_id, body) /\ NoRecord
  \/ \E habit_id \in 0 .. MaxHabits + 1 : DeleteHabitRoute(habit_id) /\ NoRecord
  \/ \E habit_id \in 0 .. MaxHabits + 1 : CompleteHabitRoute(habit_id) /\ NoRecord
  \/ GetStatsRoute /\ NoRecord

SpecRoutes == Init /\ [][RoutesNext]_vars

\* Completions under every date, updates and deletions as days pass, with the
\* date of each habit's latest successful completion kept.
LatestNext ==
  \/ \E request \in StreakCreates : CreateHabit(request, MaxHabits) /\ RecordLatest
  \/ \E habit_id \in HabitIds, request \in StreakUpdates :
       UpdateHabit(habit_id, request) /\ RecordLatest
  \/ \E habit_id \in HabitIds : DeleteHabit(habit_id) /\ RecordLatest
  \/ \E habit_id \in HabitIds, completion_date \in Optional(Dates) :
       CompleteHabit(habit_id, completion_date) /\ RecordLatest
  \/ Tick

SpecLatest == Init /\ [][LatestNext]_vars

\* Two threads call the service on habit 1 within one day, each call a read
\* and a write of the store, with the steps of the other thread and the
\* deletion of the habit in between, while other habits are stored.
ThreadDates == {None, Some(0)}
ThreadUpdates == [name : {Some("Read")}, description : {None}, status : {None}]

ThreadsNext ==
  \/ \E request \in StreakCreates : CreateHabit(request, MaxHabits + 1) /\ NoRecord
  \/ DeleteHabit(1) /\ NoRecord
  \/ \E t \in Threads, completion_date \in ThreadDates :
       CompleteRead(t, 1, completion_date)
  \/ \E t \in Threads, request \in ThreadUpdates : UpdateRead(t, 1, request)
  \/ \E t \in Threads : Write(t)
  \/ \E t \in Threads : Leave(t)

SpecThreads == Init /\ [][ThreadsNext]_vars

\* The routes from day 0 on, as days pass: every completion is for the
\* current date, and the history of successful completions is kept.
DailyInit ==
  /\ _habits = RepositoryInit.habits
  /\ _next_id = RepositoryInit.next_id
  /\ today = 0
  /\ call = [op |-> "none", habit_id |-> None, request |-> None,
             completion_date |-> None, before |-> None, kind |-> "ok",
             value |-> None]
  /\ completions = [i \in 1 .. MaxHabits |-> {}]
  /\ created = 0
  /\ latest = [i \in 1 .. MaxHabits |-> None]
  /\ threads = [t \in Threads |-> Idle]

DailyNext ==
  \/ \E body \in RoutePosts : PostHabit(body, MaxHabits) /\ Record
  \/ \E habit_id \in 1 .. MaxHabits, body \in RoutePatches :
       PatchHabit(habit_id, body) /\ Record
  \/ \E habit_id \in 1 .. MaxHabits : DeleteHabitRoute(habit_id) /\ Record
  \/ \E habit_id \in 1 .. MaxHabits : CompleteHabitRoute(habit_id) /\ Record
  \/ Tick

SpecDaily == DailyInit /\ [][DailyNext]_vars

\* The completion and streak engine while days go on passing after the last
\* date a habit can be completed for.
DecayNext ==
  \/ \E request \in StreakCreates : CreateHabit(request, MaxHabits) /\ NoRecord
  \/ \E habit_id \in 1 .. MaxHabits, request \in StreakUpdates :
       UpdateHabit(habit_id, request) /\ NoRecord
  \/ \E habit_id \in 1 .. MaxHabits : DeleteHabit(habit_id) /\ NoRecord
  \/ \E habit_id \in 1 .. MaxHabits, completion_date \in Optional(Dates) :
       CompleteHabit(habit_id, completion_date) /\ NoRecord
  \/ GetStats /\ NoRecord
  \/ TickUntil(MaxDay + 2)

SpecDecay == Init /\ [][DecayNext]_vars

\* Every writing operation and clear, with the creations counted from the
\* last clear.
KeysNext ==
  \/ \E request \in ApiCreates : CreateHabit(request, MaxHabits + 1) /\ NoRecord
  \/ \E habit_id \in 1 .. MaxHabits + 1, request \in StreakUpdates :
       UpdateHabit(habit_id, request) /\ NoRecord
  \/ \E habit_id \in 1 .. MaxHabits + 1 : DeleteHabit(habit_id) /\ NoRecord
  \/ \E habit_id \in 1 .. MaxHabits + 1 : CompleteHabit(habit_id, None) /\ NoRecord
  \/ Clear /\ CountAgain /\ NoRecord

SpecKeys == Init /\ [][KeysNext]_vars

\* Creations and deletions alone, with more identifiers handed out.
IdsNext ==
  \/ \E request \in CreateHabitRequest : CreateHabit(request, MaxCreates) /\ NoRecord
  \/ \E habit_id \in 0 .. MaxCreates : DeleteHabit(habit_id) /\ NoRecord

SpecIds == Init /\ [][IdsNext]_vars

\* -------------------------------------------------------------- properties
Stored(id) == DictHas(_habits, id)
HabitOf(id) == DictGet(_habits, id)
HabitAfter(id) == DictGet(_habits', id)
\* The step is the call complete_habit_today(id, d).
Completes(id, d) ==
  /\ call'.op = "complete_habit_today"
  /\ call'.habit_id = Some(id)
  /\ CompleteHabit(id, d)

JustCompleted(id) ==
  /\ call.op = "complete_habit_today"
  /\ call.kind = "ok"
  /\ call.habit_id = Some(id)

\* C1: when complete_habit(id, D) has succeeded and the next call on the store
\* is complete_habit(id, D) again, that call raises DuplicateCompletion
\* carrying the habit's name and D, and the store is unchanged.
C1_DuplicateCompletion ==
  [][\A id \in HabitIds, d \in Optional(Dates) :
       (/\ JustCompleted(id)
        /\ call.completion_date = Some(EffectiveDate(d, today))
        /\ Completes(id, d))
       => /\ call'.kind = "DuplicateCompletion"
          /\ call'.value.habit_name = HabitOf(id).name
          /\ call'.value.completion_date = isoformat(call.completion_date[1])
          /\ HabitAfter(id).streak_days = HabitOf(id).streak_days
          /\ HabitAfter(id).last_completed_at = HabitOf(id).last_completed_at
          /\ HabitAfter(id).status = HabitOf(id).status
          /\ _habits' = _habits]_vars

\* A second completion for the same date, a date before today, was rejected.
C1_Witness ==
  /\ call.op = "complete_habit_today"
  /\ call.kind = "DuplicateCompletion"
  /\ call.completion_date # Some(today)
  /\ call.before # None
  /\ call.before[1].last_completed_at = call.completion_date
  /\ HabitOf(call.habit_id[1]) = call.before[1]

\* C2: completing a habit whose last completion was D0, with streak S, for
\* the date D0 + 1 <= today succeeds and leaves streak_days = S + 1 and
\* last_completed_at = D0 + 1.
C2_StreakContinuity ==
  [][\A id \in HabitIds, d \in Optional(Dates) :
       LET D == EffectiveDate(d, today)
       IN  (/\ Stored(id)
            /\ HabitOf(id).last_completed_at # None
            /\ D = HabitOf(id).last_completed_at[1] + 1
            /\ D <= today
            /\ Completes(id, d))
           => /\ call'.kind = "ok"
              /\ HabitAfter(id).streak_days = HabitOf(id).streak_days + 1
              /\ HabitAfter(id).last_completed_at = Some(D)]_vars

\* A completion on the day after the last one took a streak of 2 to 3.
C2_Witness ==
  \E id \in 1 .. MaxHabits :
    /\ JustCompleted(id)
    /\ call.before[1].streak_days = 2
    /\ call.before[1].last_completed_at = Some(1)
    /\ call.completion_date = Some(2)
    /\ HabitOf(id).streak_days = 3
    /\ HabitOf(id).last_completed_at = Some(2)

\* C3: completing a habit last completed on L for a date D <= today with
\* D # L and D - L # 1 succeeds and leaves streak_days = 1 and
\* last_completed_at = D, also when D is earlier than L.
C3_StreakReset ==
  [][\A id \in HabitIds, d \in Optional(Dates) :
       LET D == EffectiveDate(d, today)
       IN  (/\ Stored(id)
            /\ HabitOf(id).last_completed_at # None
            /\ D # HabitOf(id).last_completed_at[1]
            /\ D - HabitOf(id).last_completed_at[1] # 1
            /\ D <= today
            /\ Completes(id, d))
           => /\ call'.kind = "ok"
              /\ HabitAfter(id).streak_days = 1
              /\ HabitAfter(id).last_completed_at = Some(D)]_vars

\* A completion dated two days before the last one reset a streak of 2 and
\* moved last_completed_at back.
C3_Witness ==
  \E id \in 1 .. MaxHabits :
    /\ JustCompleted(id)
    /\ call.before[1].streak_days = 2
    /\ call.before[1].last_completed_at = Some(2)
    /\ call.completion_date = Some(0)
    /\ HabitOf(id).streak_days = 1
    /\ HabitOf(id).last_completed_at = Some(0)

\* C4: completing a never-completed habit for any date D <= today succeeds
\* and leaves streak_days = 1, status = completed and last_completed_at = D,
\* whatever its status was.
C4_FirstCompletion ==
  [][\A id \in HabitIds, d \in Optional(Dates) :
       LET D == EffectiveDate(d, today)
       IN  (/\ Stored(id)
            /\ HabitOf(id).last_completed_at = None
            /\ D <= today
            /\ Completes(id, d))
           => /\ call'.kind = "ok"
              /\ HabitAfter(id).streak_days = 1
              /\ HabitAfter(id).status = "completed"
              /\ HabitAfter(id).last_completed_at = Some(D)]_vars

\* A never-completed habit, set to completed by hand, was completed for a date
\* before today.
C4_Witness ==
  \E id \in 1 .. MaxHabits :
    /\ JustCompleted(id)
    /\ call.before[1].last_completed_at = None
    /\ call.before[1].status = "completed"
    /\ call.completion_date # Some(today)
    /\ HabitOf(id).streak_days = 1
    /\ HabitOf(id).status = "completed"
    /\ HabitOf(id).last_completed_at = call.completion_date

\* C5: every stored habit has streak_days = 0 exactly when last_completed_at
\* is None, and streak_days >= 1 when it is not.
C5_StreakZeroIffNeverCompleted ==
  \A i \in 1 .. Len(_habits) :
    LET habit == _habits[i].value
    IN  /\ (habit.streak_days = 0) <=> (habit.last_completed_at = None)
        /\ habit.last_completed_at # None => habit.streak_days >= 1

\* A never-completed habit was set to completed by hand: its streak is still 0.
C5_Witness ==
  /\ call.op = "update_habit"
  /\ call.kind = "ok"
  /\ HabitOf(call.habit_id[1]).status = "completed"
  /\ HabitOf(call.habit_id[1]).last_completed_at = None
  /\ HabitOf(call.habit_id[1]).streak_days = 0


\* The step is the call update_habit(id, request) with the request recorded.
Updates(id) ==
  /\ call'.op = "update_habit"
  /\ call'.habit_id = Some(id)
  /\ UpdateHabit(id, call'.request[1])

\* The step is the call delete_habit(id).
Deletes(id) ==
  /\ call'.op = "delete_habit"
  /\ call'.habit_id = Some(id)
  /\ DeleteHabit(id)

\* C6: a successful update_habit, whatever fields it supplies, leaves the
\* habit's streak_days and last_completed_at as they were.
C6_StatusIndependence ==
  [][\A id \in HabitIds :
       (Updates(id) /\ call'.kind = "ok")
       => /\ HabitAfter(id).streak_days = HabitOf(id).streak_days
          /\ HabitAfter(id).last_completed_at = HabitOf(id).last_completed_at]_vars

\* A habit completed today was set back to pending by an update that also
\* gave it a new name and a description.
C6_Witness ==
  /\ call.op = "update_habit"
  /\ call.kind = "ok"
  /\ call.request[1].status = Some("pending")
  /\ call.request[1].name # None
  /\ call.request[1].description # None
  /\ call.before[1].status = "completed"
  /\ call.before[1].streak_days = 1
  /\ HabitOf(call.habit_id[1]).status = "pending"
  /\ HabitOf(call.habit_id[1]).streak_days = 1
  /\ HabitOf(call.habit_id[1]).last_completed_at = Some(today)

\* The three numbers counted on the stored identifiers.
StoredIds == {id \in 1 .. MaxHabits + MaxCreates : Stored(id)}
StatsOf(ids, td) ==
  [total_habits |-> Cardinality(ids),
   completed_today |->
     Cardinality({id \in ids : HabitOf(id).last_completed_at = Some(td)}),
   active_streaks_ge_3 |->
     Cardinality({id \in ids : HabitOf(id).streak_days >= 3})]

\* C7: get_stats returns the number of stored habits, the number of them whose
\* last_completed_at is today and the number of them with streak_days >= 3;
\* update_habit changes none of the three, and a deleted habit no longer counts.
C7_Stats ==
  /\ [](get_stats(_habits, today) = StatsOf(StoredIds, today))
  /\ [][(call'.op = "get_stats" /\ GetStats)
        => call'.value = StatsOf(StoredIds, today)]_vars
  /\ [][\A id \in HabitIds :
          Updates(id) => get_stats(_habits', today') = get_stats(_habits, today)]_vars
  /\ [][\A id \in HabitIds :
          (Deletes(id) /\ call'.kind = "ok")
          => get_stats(_habits', today') = StatsOf(StoredIds \ {id}, today)]_vars

\* get_stats counted a habit completed today, with a streak of 3, that had
\* been set back to pending.
C7_Witness ==
  /\ call.op = "get_stats"
  /\ call.value = [total_habits |-> 1, completed_today |-> 1, active_streaks_ge_3 |-> 1]
  /\ \E id \in StoredIds :
       /\ HabitOf(id).last_completed_at = Some(today)
       /\ HabitOf(id).streak_days = 3
       /\ HabitOf(id).status = "pending"

\* C8: for every habit and date D, at most one complete_habit(id, D) call
\* succeeds, also when other dates were completed in between.
C8_OncePerDate ==
  [][\A id \in HabitIds, d \in Optional(Dates) :
       (Completes(id, d) /\ call'.kind = "ok")
       => EffectiveDate(d, today) \notin completions[id]]_vars

\* The length of the run of consecutive dates in S that ends at L.
RECURSIVE RunLength(_, _)
RunLength(S, L) == IF L \in S THEN 1 + RunLength(S, L - 1) ELSE 0

\* C9: for every stored habit, streak_days is the number of consecutive dates
\* ending at last_completed_at on which the habit was successfully completed.
C9_StreakIsRunLength ==
  \A id \in StoredIds :
    HabitOf(id).last_completed_at # None
    => HabitOf(id).streak_days
         = RunLength(completions[id], HabitOf(id).last_completed_at[1])

\* C10: the n-th create_habit returns the identifier n, and the stored
\* identifiers are distinct and increase in creation order.
C10_IdMonotonicity ==
  /\ [][\A request \in CreateHabitRequest :
          (call'.op = "create_habit" /\ CreateHabit(request, MaxCreates))
          => /\ call'.kind = "ok"
             /\ call'.value.id = created + 1
             /\ created' = created + 1
             /\ \A i \in 1 .. Len(_habits) : _habits[i].value.id < call'.value.id]_vars
  /\ [](\A i, j \in 1 .. Len(_habits) :
          i < j => _habits[i].value.id < _habits[j].value.id)

\* The third create, after the first two habits were deleted, returned 3.
C10_Witness ==
  /\ call.op = "create_habit"
  /\ call.value.id = 3
  /\ created = 3
  /\ Len(_habits) = 1


\* C11: complete_habit(id, D) with D after today raises InvalidHabitData and
\* leaves the store unchanged, whatever the habit's state; with a positive id
\* and D on or before today (an omitted D is today) the outcome is not
\* InvalidHabitData.
C11_FutureDate ==
  [][\A id \in HabitIds, d \in Optional(Dates) :
       LET D == EffectiveDate(d, today)
       IN  Completes(id, d)
           => /\ D > today
                 => /\ call'.kind = "InvalidHabitData"
                    /\ id > 0 => call'.value.field = "completion_date"
                    /\ _habits' = _habits
                    /\ _next_id' = _next_id
              /\ (D <= today /\ id > 0) => call'.kind # "InvalidHabitData"
              /\ d = None => D = today]_vars

\* A completion dated tomorrow was refused for a stored habit that had been
\* completed before, and the habit is as it was.
C11_Witness ==
  /\ call.op = "complete_habit_today"
  /\ call.kind = "InvalidHabitData"
  /\ call.value.field = "completion_date"
  /\ call.completion_date = Some(today + 1)
  /\ call.before # None
  /\ call.before[1].last_completed_at # None
  /\ HabitOf(call.habit_id[1]) = call.before[1]


\* C12: complete_habit reports one error kind, decided in the order
\* identifier, date, existence, duplicate: a non-positive id gives
\* InvalidHabitData whatever the date, a future date gives InvalidHabitData
\* also for a missing id, a valid date on a missing id gives HabitNotFound, and
\* DuplicateCompletion is given exactly for a stored habit whose
\* last_completed_at is the date.
C12_CheckOrder ==
  [][\A id \in HabitIds, d \in Optional(Dates) :
       LET D == EffectiveDate(d, today)
       IN  Completes(id, d)
           => /\ call'.kind =
                   (IF id <= 0 THEN "InvalidHabitData"
                    ELSE IF D > today THEN "InvalidHabitData"
                    ELSE IF ~Stored(id) THEN "HabitNotFound"
                    ELSE IF HabitOf(id).last_completed_at = Some(D)
                    THEN "DuplicateCompletion"
                    ELSE "ok")
              /\ call'.kind = "InvalidHabitData"
                 => call'.value.field = IF id <= 0 THEN "habit_id" ELSE "completion_date"
              /\ call'.kind = "HabitNotFound" => call'.value.habit_id = id]_vars

\* A completion dated tomorrow for an identifier with no habit was refused
\* for its date.
C12_Witness ==
  /\ call.op = "complete_habit_today"
  /\ call.habit_id = Some(1)
  /\ call.before = None
  /\ call.completion_date = Some(today + 1)
  /\ call.kind = "InvalidHabitData"
  /\ call.value.field = "completion_date"


\* C13: update_habit on a stored habit with a payload whose name, description
\* and status are all None raises InvalidHabitData and leaves the habit as it
\* was.
C13_EmptyUpdate ==
  [][\A id \in HabitIds :
       (/\ Updates(id)
        /\ Stored(id)
        /\ call'.request = Some([name |-> None, description |-> None, status |-> None]))
       => /\ call'.kind = "InvalidHabitData"
          /\ call'.value.field = "update_request"
          /\ Stored(id)'
          /\ HabitAfter(id) = HabitOf(id)
          /\ _habits' = _habits]_vars

\* An update with no field was refused for a habit that had a description and
\* had been completed, and the habit is as it was.
C13_Witness ==
  /\ call.op = "update_habit"
  /\ call.request = Some([name |-> None, description |-> None, status |-> None])
  /\ call.kind = "InvalidHabitData"
  /\ call.value.field = "update_request"
  /\ call.before # None
  /\ call.before[1].description # None
  /\ call.before[1].streak_days = 1
  /\ HabitOf(call.habit_id[1]) = call.before[1]


\* The step is the request PATCH /habits/{id} with the body recorded.
Patches(id) ==
  /\ call'.op = "PATCH /habits/{habit_id}"
  /\ call'.habit_id = Some(id)
  /\ PatchHabit(id, call'.request[1])

\* C14: PATCH /habits/{id} on a stored habit with the body {} or the body
\* {"status": null} answers 200 with the habit, its name, description and
\* status unchanged.
C14_PatchEmptyBody ==
  [][\A id \in HabitIds :
       (/\ Patches(id)
        /\ Stored(id)
        /\ call'.request[1] \in
             {[name |-> Absent, description |-> Absent, status |-> Absent],
              [name |-> Absent, description |-> Absent, status |-> JsonNull]})
       => /\ call'.value.status_code = 200
          /\ call'.value.content = HabitOf(id)
          /\ HabitAfter(id) = HabitOf(id)]_vars

\* C16: PATCH /habits/{id} with the body {"description": null} on a stored
\* habit that has a description answers 200, and the habit returned and stored
\* has no description and the name it had.
C16_PatchNullDescription ==
  [][\A id \in HabitIds :
       (/\ Patches(id)
        /\ Stored(id)
        /\ HabitOf(id).description # None
        /\ call'.request[1] = [name |-> Absent, description |-> JsonNull, status |-> Absent])
       => /\ call'.value.status_code = 200
          /\ call'.value.content = HabitAfter(id)
          /\ HabitAfter(id).description = None
          /\ HabitAfter(id).name = HabitOf(id).name]_vars


\* The payload with no non-null field.
NoFields == [name |-> None, description |-> None, status |-> None]

\* C15 (as claimed): update_habit checks the payload before existence: for a
\* positive id and a payload with no non-null field the result is
\* InvalidHabitData whether or not the habit exists, and HabitNotFound is
\* reported only for a payload with a field on a missing id.
C15_PayloadBeforeExistence ==
  [][\A id \in HabitIds :
       (Updates(id) /\ id > 0)
       => /\ call'.request = Some(NoFields) => call'.kind = "InvalidHabitData"
          /\ call'.kind = "HabitNotFound"
             => (call'.request # Some(NoFields) /\ ~Stored(id))]_vars

\* C15 (amended): update_habit checks existence before the payload: for a
\* positive id with no habit the result is HabitNotFound carrying the id,
\* whatever the payload; InvalidHabitData for a payload with no non-null field
\* is reported only when the habit exists.
C15_ExistenceBeforePayload ==
  [][\A id \in HabitIds :
       (Updates(id) /\ id > 0)
       => /\ ~Stored(id)
             => (call'.kind = "HabitNotFound" /\ call'.value.habit_id = id)
          /\ (Stored(id) /\ call'.request = Some(NoFields))
             => (call'.kind = "InvalidHabitData" /\ call'.value.field = "update_request")
          /\ (Stored(id) /\ call'.request # Some(NoFields)) => call'.kind = "ok"]_vars

\* An update with no field on an identifier whose habit had been deleted was
\* answered HabitNotFound.
C15_Witness ==
  /\ call.op = "update_habit"
  /\ call.habit_id = Some(1)
  /\ call.request = Some(NoFields)
  /\ call.before = None
  /\ _next_id > 1
  /\ call.kind = "HabitNotFound"
  /\ call.value.habit_id = 1


\* The step is the call get_habit_by_id(id).
Gets(id) ==
  /\ call'.op = "get_habit_by_id"
  /\ call'.habit_id = Some(id)
  /\ GetHabitById(id)

\* The step is a call of one of the four operations that take an identifier.
CallsOn(id) ==
  \/ Gets(id)
  \/ Updates(id)
  \/ Deletes(id)
  \/ \E d \in {None, Some(MaxDay)} : Completes(id, d)

\* C17: get_habit, update_habit, delete_habit and complete_habit with an
\* id <= 0 raise InvalidHabitData for the field habit_id, never HabitNotFound,
\* and leave the store unchanged, whatever the store holds and whatever the
\* other arguments are.
C17_NonPositiveId ==
  [][\A id \in ErrorIds :
       (id <= 0 /\ CallsOn(id))
       => /\ call'.kind = "InvalidHabitData"
          /\ call'.value.field = "habit_id"
          /\ call'.value.value = ToString(id)
          /\ _habits' = _habits
          /\ _next_id' = _next_id]_vars

\* With two habits stored, an update of habit 0 that gave a status was refused
\* for its identifier.
C17_Witness ==
  /\ call.op = "update_habit"
  /\ call.habit_id = Some(0)
  /\ call.request[1].status # None
  /\ call.kind = "InvalidHabitData"
  /\ call.value.field = "habit_id"
  /\ Len(_habits) = 2

\* The identifier was assigned and its habit has been deleted.
Deleted(id) == id >= 1 /\ id <= created /\ ~Stored(id)

\* C18: for a positive id with no habit, never assigned or deleted, get_habit,
\* update_habit with a field, delete_habit and complete_habit with a valid date
\* raise HabitNotFound carrying the id; a successful delete_habit(id) removes
\* the habit, and a deleted id is never stored again, whatever is created later.
C18_NotFoundForever ==
  /\ [][\A id \in ErrorIds :
          (id > 0 /\ ~Stored(id))
          => /\ (\/ Gets(id)
                 \/ Deletes(id)
                 \/ Updates(id) /\ call'.request # Some(NoFields)
                 \/ Completes(id, None))
                => /\ call'.kind = "HabitNotFound"
                   /\ call'.value.habit_id = id
                   /\ _habits' = _habits]_vars
  /\ [][\A id \in ErrorIds : (Deletes(id) /\ call'.kind = "ok") => Deleted(id)']_vars
  /\ [][\A id \in ErrorIds : Deleted(id) => Deleted(id)']_vars

\* Habit 1 was deleted and habit 2 is stored; a completion of habit 1 was
\* answered HabitNotFound.
C18_Witness ==
  /\ call.op = "complete_habit_today"
  /\ call.habit_id = Some(1)
  /\ call.kind = "HabitNotFound"
  /\ call.value.habit_id = 1
  /\ Deleted(1)
  /\ Stored(2)


\* C19: a call that ends in InvalidHabitData, HabitNotFound or
\* DuplicateCompletion leaves the store as it was: the habits, every field of
\* each, their order and the next identifier; no other error kind occurs.
C19_ZeroWritesOnFailure ==
  /\ [][call'.kind # "ok" => (_habits' = _habits /\ _next_id' = _next_id)]_vars
  /\ [](call.kind \in {"ok", "InvalidHabitData", "HabitNotFound", "DuplicateCompletion"})

\* A habit completed and then set back to pending by hand was completed again
\* for the same date: the call was refused and the habit is still pending.
C19_Witness ==
  /\ call.op = "complete_habit_today"
  /\ call.kind = "DuplicateCompletion"
  /\ call.before # None
  /\ call.before[1].status = "pending"
  /\ call.before[1].streak_days = 2
  /\ HabitOf(call.habit_id[1]) = call.before[1]
  /\ _next_id = 2


\* C20: a successful update_habit(id, payload) sets the fields of habit id
\* that the payload supplies to the payload's values and leaves its id and its
\* unsupplied fields among name, description and status as they were; every
\* other habit and the next identifier are unchanged, and the habit returned is
\* the habit stored.
C20_UpdateFrame ==
  [][\A id \in 0 .. MaxHabits + 1 :
       (Updates(id) /\ call'.kind = "ok")
       => LET request == call'.request[1]
          IN  /\ Stored(id) /\ Stored(id)'
              /\ HabitAfter(id).id = id
              /\ HabitAfter(id).name =
                   (IF request.name # None THEN request.name[1] ELSE HabitOf(id).name)
              /\ HabitAfter(id).description =
                   (IF request.description # None THEN request.description
                    ELSE HabitOf(id).description)
              /\ HabitAfter(id).status =
                   (IF request.status # None THEN request.status[1] ELSE HabitOf(id).status)
              /\ Len(_habits') = Len(_habits)
              /\ \A i \in 1 .. Len(_habits) :
                   /\ _habits'[i].key = _habits[i].key
                   /\ _habits[i].key # id => _habits'[i] = _habits[i]
              /\ _next_id' = _next_id
              /\ call'.value = HabitAfter(id)]_vars

\* With two habits stored, an update gave habit 1 a new name and status and
\* no description: habit 1 kept its description and habit 2 is untouched.
C20_Witness ==
  /\ call.op = "update_habit"
  /\ call.kind = "ok"
  /\ call.habit_id = Some(1)
  /\ call.request = Some([name |-> Some("Read"), description |-> None,
                          status |-> Some("completed")])
  /\ call.before[1].name = "Exercise"
  /\ call.before[1].description = Some("daily")
  /\ call.before[1].status = "pending"
  /\ Stored(1) /\ Stored(2)
  /\ HabitOf(1).name = "Read"
  /\ HabitOf(1).description = Some("daily")
  /\ HabitOf(1).status = "completed"
  /\ HabitOf(2).name = "Exercise"
  /\ HabitOf(2).status = "pending"


\* C21: a successful complete_habit(id, D) writes status = completed, the new
\* streak_days and last_completed_at = D on habit id and nothing else: its id,
\* name and description, every other habit and the next identifier are as
\* they were, and the habit returned is the habit stored.
C21_CompleteFrame ==
  [][\A id \in 1 .. MaxHabits + 1, d \in {None, Some(0)} :
       (Completes(id, d) /\ call'.kind = "ok")
       => /\ Stored(id) /\ Stored(id)'
          /\ HabitAfter(id) =
               [HabitOf(id) EXCEPT
                  !.status = "completed",
                  !.streak_days = _calculate_new_streak(HabitOf(id), EffectiveDate(d, today)),
                  !.last_completed_at = Some(EffectiveDate(d, today))]
          /\ HabitAfter(id).id = id
          /\ HabitAfter(id).name = HabitOf(id).name
          /\ HabitAfter(id).description = HabitOf(id).description
          /\ Len(_habits') = Len(_habits)
          /\ \A i \in 1 .. Len(_habits) :
               /\ _habits'[i].key = _habits[i].key
               /\ _habits[i].key # id => _habits'[i] = _habits[i]
          /\ _next_id' = _next_id
          /\ call'.value = HabitAfter(id)]_vars

\* Habit 2, with a description, was completed a second day running while
\* habit 1 kept the streak of 1 it got the day before.
C21_Witness ==
  /\ JustCompleted(2)
  /\ call.before[1].streak_days = 1
  /\ call.before[1].description # None
  /\ Stored(1)
  /\ HabitOf(1).streak_days = 1
  /\ HabitOf(1).last_completed_at = Some(today - 1)
  /\ HabitOf(2).streak_days = 2
  /\ HabitOf(2).last_completed_at = Some(today)
  /\ HabitOf(2).description = call.before[1].description


\* C22: create_habit succeeds whatever the store holds and appends a habit
\* with status = pending, streak_days = 0, last_completed_at = None, the name
\* and description of the request and an identifier no stored habit has; the
\* habits already stored are unchanged.
C22_CreateDefaults ==
  [][\A request \in ApiCreates :
       (call'.op = "create_habit" /\ CreateHabit(request, MaxHabits + 1))
       => /\ call'.kind = "ok"
          /\ call'.value =
               [id |-> created + 1, name |-> request.name,
                description |-> request.description, status |-> "pending",
                streak_days |-> 0, last_completed_at |-> None]
          /\ \A i \in 1 .. Len(_habits) : _habits[i].key # call'.value.id
          /\ _habits' = Append(_habits, [key |-> call'.value.id, value |-> call'.value])
          /\ _next_id' = call'.value.id + 1]_vars

\* A second habit, with a description, was created after the first had been
\* renamed and set to completed; the first is as it was.
C22_Witness ==
  /\ call.op = "create_habit"
  /\ call.value.id = 2
  /\ call.value.description = Some("daily")
  /\ Stored(1) /\ Stored(2)
  /\ HabitOf(1).name = "Read"
  /\ HabitOf(1).status = "completed"
  /\ HabitOf(2) = call.value
  /\ HabitOf(2).status = "pending"


\* The step is the request POST /habits with the body recorded.
Posts ==
  /\ call'.op = "POST /habits"
  /\ PostHabit(call'.request[1], MaxHabits + 1)

\* The name is a string of length outside 1..80 or the description a string
\* longer than 280.
BadLengths(body) ==
  \/ body.name \notin {Absent, JsonNull}
     /\ (len(body.name[2]) < 1 \/ len(body.name[2]) > 80)
  \/ body.description \notin {Absent, JsonNull} /\ len(body.description[2]) > 280

\* C23 (as claimed): a create whose name has a length outside 1..80 or whose
\* description is longer than 280 is rejected with InvalidHabitData, the 400
\* kind, creating nothing and consuming no identifier.
C23_CreateInvalidHabitData ==
  [][(Posts /\ BadLengths(call'.request[1]))
     => /\ call'.kind = "InvalidHabitData"
        /\ call'.value.status_code = 400
        /\ _habits' = _habits
        /\ _next_id' = _next_id]_vars

\* C23 (amended): such a create is rejected when the request is validated,
\* with status 422 and not with InvalidHabitData, before create_habit is
\* called: nothing is created and no identifier is consumed; a request within
\* the limits is created with status 201.
C23_CreateValidationError ==
  [][Posts
     => /\ BadLengths(call'.request[1])
           => /\ call'.kind = "RequestValidationError"
              /\ call'.value.status_code = 422
              /\ _habits' = _habits
              /\ _next_id' = _next_id
              /\ created' = created
        /\ call'.kind # "InvalidHabitData"
        /\ (~BadLengths(call'.request[1]) /\ call'.request[1].name # Absent)
           => /\ call'.kind = "ok"
              /\ call'.value.status_code = 201
              /\ call'.value.content.name = call'.request[1].name[2]]_vars

\* After a habit with a name of 80 characters was created, a name of 81
\* characters was answered 422, and the next identifier is still 2.
C23_Witness ==
  /\ call.op = "POST /habits"
  /\ call.request[1].name = JsonString(Name81)
  /\ call.request[1].description = Absent
  /\ call.value.status_code = 422
  /\ Stored(1)
  /\ HabitOf(1).name = Name80
  /\ Len(_habits) = 1
  /\ _next_id = 2


\* The step is the call get_habits(status) with the filter recorded.
Lists ==
  /\ call'.op = "get_habits"
  /\ GetHabits(call'.request)

\* The identifiers of the habits of a list.
ListedIds(r) == {r[i].id : i \in 1 .. Len(r)}

\* r holds, in ascending identifier order, exactly the stored habits that the
\* filter admits.
ListsExactly(r, status) ==
  /\ \A i, j \in 1 .. Len(r) : i < j => r[i].id < r[j].id
  /\ \A i \in 1 .. Len(r) :
       /\ Stored(r[i].id)
       /\ r[i] = HabitOf(r[i].id)
       /\ status # None => r[i].status = status[1]
  /\ \A id \in StoredIds :
       (status = None \/ HabitOf(id).status = status[1]) => id \in ListedIds(r)

\* C24: get_habits returns the stored habits in insertion order, which is
\* ascending identifier order, and with a filter exactly those of that status;
\* it never fails and gives the empty sequence when nothing matches; updates
\* and completions keep every habit's position, and a deleted habit is no
\* longer listed.
C24_ListOrder ==
  /\ [](\A status \in Optional(Statuses) :
          ListsExactly(get_habits(_habits, status), status))
  /\ [][Lists => (call'.kind = "ok" /\ ListsExactly(call'.value, call'.request))]_vars
  /\ [][\A id \in 1 .. MaxHabits + 1 :
          (Updates(id) \/ Completes(id, None))
          => /\ Len(_habits') = Len(_habits)
             /\ \A i \in 1 .. Len(_habits) : _habits'[i].key = _habits[i].key]_vars
  /\ [][\A id \in 1 .. MaxHabits + 1 :
          (Deletes(id) /\ call'.kind = "ok")
          => id \notin ListedIds(get_habits(_habits', None))]_vars

\* With habit 1 set to completed by an update and habit 2 pending, the list
\* filtered on pending held habit 2 alone.
C24_Witness ==
  /\ call.op = "get_habits"
  /\ call.request = Some("pending")
  /\ Stored(1) /\ Stored(2)
  /\ HabitOf(1).status = "completed"
  /\ HabitOf(1).last_completed_at = None
  /\ call.value = <<HabitOf(2)>>
  /\ get_habits(_habits, None) = <<HabitOf(1), HabitOf(2)>>

\* C25: a successful delete_habit(id) removes the habit with that id and no
\* other: it is no longer listed or counted, every other habit is unchanged
\* and in its place, and the next identifier is unchanged.
C25_DeleteFrame ==
  [][\A id \in 1 .. MaxHabits + 1 :
       (Deletes(id) /\ call'.kind = "ok")
       => /\ Stored(id) /\ ~Stored(id)'
          /\ Len(_habits') = Len(_habits) - 1
          /\ \A other \in StoredIds \ {id} :
               /\ DictHas(_habits', other)
               /\ HabitAfter(other) = HabitOf(other)
          /\ id \notin ListedIds(get_habits(_habits', None))
          /\ ListedIds(get_habits(_habits', None)) = StoredIds \ {id}
          /\ get_stats(_habits', today) = StatsOf(StoredIds \ {id}, today)
          /\ _next_id' = _next_id]_vars

\* Habit 1 was deleted; habit 2, completed today, is stored as it was and the
\* next identifier is 3.
C25_Witness ==
  /\ call.op = "delete_habit"
  /\ call.kind = "ok"
  /\ call.habit_id = Some(1)
  /\ ~Stored(1) /\ Stored(2)
  /\ HabitOf(2).streak_days = 1
  /\ HabitOf(2).last_completed_at = Some(today)
  /\ get_stats(_habits, today) =
       [total_habits |-> 1, completed_today |-> 1, active_streaks_ge_3 |-> 0]
  /\ _next_id = 3


\* The step is the call get_stats().
CountsStats ==
  /\ call'.op = "get_stats"
  /\ GetStats

\* C30: get_stats, get_habits and get_habit_by_id leave the habits and the
\* next identifier as they were, whether they succeed or fail, and get_stats
\* called again with no write in between and on the same date returns the
\* same three numbers.
C30_PureReads ==
  /\ [][(CountsStats \/ Lists \/ \E id \in 0 .. MaxHabits + 1 : Gets(id))
        => (_habits' = _habits /\ _next_id' = _next_id)]_vars
  /\ [][(call.op = "get_stats" /\ CountsStats /\ today' = today)
        => call'.value = call.value]_vars
  /\ [][(Lists \/ \E id \in 0 .. MaxHabits + 1 : Gets(id))
        => get_stats(_habits', today') = get_stats(_habits, today)]_vars

\* With two habits stored, one of them completed today, habit 1 was read and
\* both are still stored.
C30_Witness ==
  /\ call.op = "get_habit_by_id"
  /\ call.kind = "ok"
  /\ call.habit_id = Some(1)
  /\ call.value = call.before[1]
  /\ Stored(1) /\ Stored(2)
  /\ HabitOf(1) = call.before[1]
  /\ get_stats(_habits, today) =
       [total_habits |-> 2, completed_today |-> 1, active_streaks_ge_3 |-> 0]
  /\ _next_id = 3


\* C29: the only step in which a stored habit's status goes from completed to
\* pending is a successful update_habit whose payload has status = pending;
\* the passage to a new day changes no habit.
C29_NoAutomaticPending ==
  /\ [][\A id \in 1 .. MaxHabits :
          (/\ Stored(id)
           /\ HabitOf(id).status = "completed"
           /\ Stored(id)'
           /\ HabitAfter(id).status = "pending")
          => /\ Updates(id)
             /\ call'.kind = "ok"
             /\ call'.request[1].status = Some("pending")]_vars
  /\ [][today' # today => (_habits' = _habits /\ _next_id' = _next_id)]_vars

\* A habit completed yesterday is still completed today, with no call since.
C29_Witness ==
  /\ JustCompleted(1)
  /\ call.completion_date = Some(today - 1)
  /\ call.value.last_completed_at = Some(today - 1)
  /\ today = MaxDay
  /\ Stored(1)
  /\ HabitOf(1) = call.value
  /\ HabitOf(1).status = "completed"


\* The step is the call clear().
Clears ==
  /\ call'.op = "clear"
  /\ Clear

\* C26: clear removes every habit and sets the identifier counter to 1, so
\* the create that follows returns id 1 whatever identifiers were assigned
\* before; no service call clears the store: only clear takes the counter
\* back.
C26_Clear ==
  /\ [][Clears => (_habits' = << >> /\ _next_id' = 1)]_vars
  /\ [][(call.op = "clear" /\ call'.op = "create_habit")
        => (call'.value.id = 1 /\ _habits' = <<[key |-> 1, value |-> call'.value]>>)]_vars
  /\ [][_next_id' < _next_id => Clears]_vars
  /\ [][call'.op # "clear" => _next_id' >= _next_id]_vars

\* After identifiers 1 and 2 were assigned and the store was cleared, the
\* third create returned id 1.
C26_Witness ==
  /\ call.op = "create_habit"
  /\ created = 3
  /\ call.value.id = 1
  /\ Len(_habits) = 1
  /\ _next_id = 2

\* C27: for an id that is not stored the repository's get_by_id returns None,
\* update returns None and delete returns False, none raises, and the store is
\* as it was: update creates no record.
C27_RepositoryNotFound ==
  [][\A id \in 0 .. MaxHabits + 2 :
       (~Stored(id) /\ call'.habit_id = Some(id))
       => /\ call'.kind = "ok"
          /\ call'.op = "repository.get_by_id" => call'.value = None
          /\ call'.op = "repository.update" => call'.value = None
          /\ call'.op = "repository.delete" => call'.value = FALSE
          /\ _habits' = _habits
          /\ _next_id' = _next_id
          /\ ~Stored(id)']_vars

\* An update of habit 1, which had been deleted, returned None and left the
\* store holding habit 2 alone.
C27_Witness ==
  /\ call.op = "repository.update"
  /\ call.habit_id = Some(1)
  /\ call.value = None
  /\ ~Stored(1) /\ Stored(2)
  /\ Len(_habits) = 1


\* The requests that reach the service.
Routes ==
  {"POST /habits", "GET /habits", "PATCH /habits/{habit_id}",
   "DELETE /habits/{habit_id}", "POST /habits/{habit_id}/complete", "GET /stats"}

C31_LastCompletedAt ==
  \A id \in 1 .. MaxHabits :
    Stored(id) => HabitOf(id).last_completed_at = latest[id]

\* Habit 1 was completed for a date before the one it was last completed for,
\* and last_completed_at went back to it.
C31_Witness ==
  /\ JustCompleted(1)
  /\ call.before[1].last_completed_at # None
  /\ call.completion_date[1] < call.before[1].last_completed_at[1]
  /\ HabitOf(1).last_completed_at = call.completion_date
  /\ latest[1] = call.completion_date

\* Thread t has ended a complete_habit_today on habit id for date d that ran
\* while the other thread was between its read and its write.
EndedConcurrentCompletion(t, id, d) ==
  /\ threads[t].pc = "done"
  /\ threads[t].op = "complete_habit_today"
  /\ threads[t].habit_id = id
  /\ threads[t].completion_date = Some(d)
  /\ threads[t].concurrent

\* C32: of two concurrent complete_habit_today calls for the same habit and the
\* same date, each a read and a later write of the store, at most one
\* succeeds, the other then fails with DuplicateCompletion, and streak_days is
\* advanced at most once.
C32_OneWriter ==
  \A t \in Threads, u \in Threads, d \in Dates :
    (/\ t # u
     /\ EndedConcurrentCompletion(t, 1, d)
     /\ EndedConcurrentCompletion(u, 1, d)
     /\ Stored(1))
    => /\ ~(threads[t].kind = "ok" /\ threads[u].kind = "ok")
       /\ threads[t].kind = "ok" => threads[u].kind = "DuplicateCompletion"
       /\ threads[t].habit # None
          => HabitOf(1).streak_days <= threads[t].habit[1].streak_days + 1

\* Thread t's step is the repository.update of its call, on habit id.
Writes(t, id) ==
  /\ threads[t].pc = "write"
  /\ threads[t].habit_id = id
  /\ threads'[t].pc = "done"

\* C33: when the habit was deleted between the read and the write of a
\* complete_habit_today or update_habit on it, the call fails with
\* HabitNotFound, the habit stays absent and no stored habit is modified.
C33_NoResurrection ==
  [][\A t \in Threads :
       (Writes(t, 1) /\ ~Stored(1))
       => /\ threads'[t].kind = "HabitNotFound"
          /\ threads'[t].value.habit_id = 1
          /\ ~DictHas(_habits', 1)
          /\ _habits' = _habits]_vars

\* Both threads had read habit 1, one to complete it and one to rename it,
\* when it was deleted, and both calls ended with HabitNotFound while habit 2
\* is stored as it was created.
C33_Witness ==
  \E t \in Threads, u \in Threads :
    /\ threads[t].pc = "done" /\ threads[u].pc = "done"
    /\ threads[t].op = "complete_habit_today" /\ threads[u].op = "update_habit"
    /\ threads[t].habit # None /\ threads[u].habit # None
    /\ threads[t].kind = "HabitNotFound" /\ threads[u].kind = "HabitNotFound"
    /\ ~Stored(1)
    /\ Stored(2) /\ HabitOf(2).name = "Exercise" /\ HabitOf(2).streak_days = 0

\* C34: as the current date only moves forward, no stored habit is dated after
\* today, and get_stats counts no more habits completed today than there are
\* habits, each of them dated today.
C34_NotInFuture ==
  /\ \A id \in 1 .. MaxHabits :
       (Stored(id) /\ HabitOf(id).last_completed_at # None)
       => HabitOf(id).last_completed_at[1] <= today
  /\ LET stats == get_stats(_habits, today)
     IN  /\ stats.completed_today <= stats.total_habits
         /\ stats.completed_today
              = Cardinality({id \in 1 .. MaxHabits :
                               Stored(id) /\ HabitOf(id).last_completed_at = Some(today)})

\* A completion of habit 1 for tomorrow was refused on a later day than its
\* last completion, which get_stats does not count for today.
C34_Witness ==
  /\ call.op = "complete_habit_today"
  /\ call.habit_id = Some(1)
  /\ call.completion_date = Some(today + 1)
  /\ call.kind = "InvalidHabitData"
  /\ Stored(1)
  /\ HabitOf(1).last_completed_at # None
  /\ HabitOf(1).last_completed_at[1] < today
  /\ get_stats(_habits, today).completed_today = 0

\* The step is POST /habits/{id}/complete.
PostsComplete(id) ==
  /\ call'.op = "POST /habits/{habit_id}/complete"
  /\ call'.habit_id = Some(id)
  /\ CompleteHabitRoute(id)

\* C35: when every completion comes from POST /habits/{id}/complete and the
\* date only moves forward, a habit is successfully completed at most once
\* for each day, its last_completed_at never decreases, and its streak_days
\* is the number of consecutive days ending at last_completed_at on which it
\* was successfully completed.
C35_DailyCompletions ==
  /\ [][\A id \in 1 .. MaxHabits :
          /\ (PostsComplete(id) /\ call'.kind = "ok") => today \notin completions[id]
          /\ (Stored(id) /\ DictHas(_habits', id)
               /\ HabitOf(id).last_completed_at # None)
             => /\ HabitAfter(id).last_completed_at # None
                /\ HabitAfter(id).last_completed_at[1] >= HabitOf(id).last_completed_at[1]]_vars
  /\ [](\A id \in 1 .. MaxHabits :
          Stored(id)
          => /\ HabitOf(id).last_completed_at = None
                => (completions[id] = {} /\ HabitOf(id).streak_days = 0)
             /\ HabitOf(id).last_completed_at # None
                => HabitOf(id).streak_days
                     = RunLength(completions[id], HabitOf(id).last_completed_at[1]))

\* Habit 1 was completed on day 0 and, after a day without a completion, on
\* day 2, where its streak is 1 and a second completion was refused.
C35_Witness ==
  /\ call.op = "POST /habits/{habit_id}/complete"
  /\ call.habit_id = Some(1)
  /\ call.kind = "DuplicateCompletion"
  /\ today = 2
  /\ completions[1] = {0, 2}
  /\ HabitOf(1).last_completed_at = Some(2)
  /\ HabitOf(1).streak_days = 1

\* The stored habits whose streak is three days or longer.
ActiveStreaks == {id \in 1 .. MaxHabits : Stored(id) /\ HabitOf(id).streak_days >= 3}

\* C36: a change of the current date alone changes no stored field; the
\* streak_days of a habit changes only in a successful complete_habit_today
\* on it, by one or to 1; and get_stats counts every habit with a streak of
\* three or more in active_streaks_ge_3, however long ago its last completion.
C36_NoStreakDecay ==
  /\ [][/\ today' # today => (_habits' = _habits /\ _next_id' = _next_id)
        /\ \A id \in 1 .. MaxHabits :
             (/\ Stored(id) /\ DictHas(_habits', id)
              /\ HabitAfter(id).streak_days # HabitOf(id).streak_days)
             => /\ \E d \in Optional(Dates) : Completes(id, d) /\ call'.kind = "ok"
                /\ \/ HabitAfter(id).streak_days = HabitOf(id).streak_days + 1
                   \/ HabitAfter(id).streak_days = 1]_vars
  /\ [](get_stats(_habits, today).active_streaks_ge_3 = Cardinality(ActiveStreaks))

\* Habit 1 has a streak of three days that ended two days ago or earlier,
\* and get_stats has just counted it as active.
C36_Witness ==
  /\ Stored(1)
  /\ HabitOf(1).streak_days >= 3
  /\ HabitOf(1).last_completed_at # None
  /\ HabitOf(1).last_completed_at[1] + 2 <= today
  /\ call.op = "get_stats"
  /\ call.value.active_streaks_ge_3 = 1

\* C37: every stored habit's id is the key it is stored under, is at least 1
\* and below the next identifier, and stays the same while the habit is
\* stored; the next identifier is 1 plus the number of successful creations
\* since the last clear, and update, complete and delete never decrease it.
C37_Identifiers ==
  /\ [](/\ \A i \in 1 .. Len(_habits) :
             /\ _habits[i].value.id = _habits[i].key
             /\ 1 <= _habits[i].key
             /\ _habits[i].key < _next_id
        /\ _next_id = 1 + created)
  /\ [][/\ \A id \in 1 .. MaxHabits + 1 :
             (Stored(id) /\ DictHas(_habits', id))
             => HabitAfter(id).id = HabitOf(id).id
        /\ call'.op \in {"update_habit", "complete_habit_today", "delete_habit"}
           => _next_id' >= _next_id]_vars

\* Habit 1 was deleted after habit 2 was created and completed: habit 2 is
\* stored under its own identifier and the next identifier is still 3.
C37_Witness ==
  /\ call.op = "delete_habit"
  /\ call.habit_id = Some(1)
  /\ call.kind = "ok"
  /\ ~Stored(1)
  /\ Stored(2)
  /\ HabitOf(2).id = 2
  /\ HabitOf(2).status = "completed"
  /\ _next_id = 3
  /\ created = 2

====
